---- MODULE Spec2Model ----
(***************************************************************************)
(* A model of abstreet's demand generation (Scenario::instantiate, the     *)
(* parking allocator seed_parked_cars / find_spot_near_building and the    *)
(* goal resolver of scenario.rs), under Spec, and of the simulation        *)
(* orchestrator Sim of sim.rs, under SimSpec.                              *)
(*                                                                         *)
(* Options are sequences: <<>> is None and <<x>> is Some(x).               *)
(* Durations are whole seconds, distances whole decimetres.                *)
(***************************************************************************)
EXTENDS Integers, Sequences, FiniteSets, TLC

----------------------------------------------------------------------------
(* Bounds of the model *)

\* Size of the state space of the modelled random stream.
RngMod == 16
\* Largest number of parking spots on one road's parking lanes.
MaxSpots == 2
\* Largest num_agents of a SpawnOverTime request.
MaxAgents == 2
\* The stop_time of the requests, whose start_time is 0.
StopTime == 2

----------------------------------------------------------------------------
(* Program constants *)

MIN_CAR_LENGTH == 45
MAX_CAR_LENGTH == 65
MIN_BIKE_LENGTH == 18
MAX_BIKE_LENGTH == 20

----------------------------------------------------------------------------
(* The random stream: a seedable deterministic generator.  Its state is one *)
(* number; every draw returns [v |-> the value, s |-> the next state].      *)

RngMul == 5
RngInc == 3

RngStates == 0 .. (RngMod - 1)

RngNext(s) == (s * RngMul + RngInc) % RngMod

\* rng.gen_range(low, high): a value of [low, high).
GenRange(s, low, high) ==
    [v |-> low + ((s * (high - low)) \div RngMod), s |-> RngNext(s)]

\* rng.gen_bool(p), p in percent.
GenBool(s, percent) ==
    [v |-> ((s * 100) \div RngMod) < percent, s |-> RngNext(s)]

\* slice.choose(rng): Some(element) of a non-empty vector, None of an empty one.
Choose(s, vec) ==
    IF vec = <<>> THEN [v |-> <<>>, s |-> s]
    ELSE [v |-> <<vec[1 + GenRange(s, 0, Len(vec)).v]>>, s |-> RngNext(s)]

\* fork_rng(base): a child stream seeded from a draw of the base stream,
\* which advances.
ForkRng(s) ==
    [v |-> (s * 7 + 5) % RngMod, s |-> RngNext(s)]

Swap(seq, i, j) ==
    [k \in 1 .. Len(seq) |->
        IF k = i THEN seq[j] ELSE IF k = j THEN seq[i] ELSE seq[k]]

\* slice.shuffle(rng): Fisher-Yates from the last element down.
RECURSIVE ShuffleFrom(_, _, _)
ShuffleFrom(seq, i, s) ==
    IF i <= 1 THEN seq
    ELSE LET d == GenRange(s, 0, i)
         IN ShuffleFrom(Swap(seq, i, d.v + 1), i - 1, d.s)

Shuffle(seq, s) == ShuffleFrom(seq, Len(seq), s)

RECURSIVE SumSeq(_)
SumSeq(seq) == IF seq = <<>> THEN 0 ELSE Head(seq) + SumSeq(Tail(seq))

\* The index (from 0) of the weight bucket that x falls in.
RECURSIVE Bucket(_, _, _)
Bucket(weights, x, i) ==
    IF i >= Len(weights) THEN Len(weights) - 1
    ELSE IF x < weights[i] THEN i - 1
    ELSE Bucket(weights, x - weights[i], i + 1)

\* WeightedUsizeChoice::sample: index i with probability weights[i] / total.
Sample(s, weights) ==
    LET d == GenRange(s, 0, SumSeq(weights))
    IN [v |-> Bucket(weights, d.v, 1), s |-> d.s]

----------------------------------------------------------------------------
(* The map: roads, buildings and the neighborhood index.                    *)

Roads == 1 .. 5
Buildings == 1 .. 4

\* map.get_next_roads(r), in the order the map returns them.
get_next_roads(r) ==
    CASE r = 1 -> <<2, 3>>
      [] r = 2 -> <<1, 3>>
      [] r = 3 -> <<1, 2, 4>>
      [] r = 4 -> <<3, 5>>
      [] OTHER -> <<4>>

\* map.building_to_road(b).id
building_to_road(b) == <<1, 1, 2, 4>>[b]

\* map.get_b(b).sidewalk(): buildings 1 and 2 share a sidewalk.
BuildingSidewalk(b) == <<1, 1, 2, 4>>[b]

\* FullNeighborhoodInfo::load_all(map): name -> buildings and roads.  "n1" is
\* connected and holds its buildings' roads; "n2" lists building 4, whose road
\* 4 is not one of its roads, and road 5, which touches only road 4.
Neighborhoods ==
    [n \in {"n1", "n2"} |->
        IF n = "n1" THEN [buildings |-> <<1, 2, 3>>, roads |-> {1, 2, 3}]
        ELSE [buildings |-> <<3, 4>>, roads |-> {2, 3, 5}]]

\* A neighborhood name no neighborhood carries.
UndefinedName == "nx"

\* The border intersections: their incoming and outgoing lanes by type, in the
\* map's order, and whether a sidewalk starts / ends there.
Intersections == 1 .. 4

IntersectionInfo(i) ==
    CASE i = 1 -> [in_driving |-> <<11, 12>>, in_biking |-> <<>>,
                   out_driving |-> <<13>>, out_biking |-> <<>>,
                   sidewalk |-> TRUE]
      [] i = 2 -> [in_driving |-> <<>>, in_biking |-> <<21>>,
                   out_driving |-> <<23>>, out_biking |-> <<24>>,
                   sidewalk |-> FALSE]
      [] i = 4 -> [in_driving |-> <<>>, in_biking |-> <<41>>,
                   out_driving |-> <<>>, out_biking |-> <<44>>,
                   sidewalk |-> TRUE]
      [] OTHER -> [in_driving |-> <<>>, in_biking |-> <<>>,
                   out_driving |-> <<>>, out_biking |-> <<>>,
                   sidewalk |-> FALSE]

get_incoming_lanes(i, lane_type) ==
    IF lane_type = "Driving" THEN IntersectionInfo(i).in_driving
    ELSE IntersectionInfo(i).in_biking

get_outgoing_lanes(i, lane_type) ==
    IF lane_type = "Driving" THEN IntersectionInfo(i).out_driving
    ELSE IntersectionInfo(i).out_biking

\* map.get_l(l).length(): lane 13 is exactly as long as the longest car, lane
\* 23 is shorter.
LaneLength(l) == IF l = 13 THEN MAX_CAR_LENGTH ELSE IF l = 23 THEN 50 ELSE 200

\* map.get_parent(l).supports_bikes()
supports_bikes(l) == l = 13

\* A SidewalkSpot: what it connects to and the sidewalk it lies on.
SidewalkSpot_building(b) ==
    [connection |-> "Building", id |-> b, sidewalk |-> BuildingSidewalk(b)]

SidewalkSpot_start_at_border(i) ==
    IF IntersectionInfo(i).sidewalk
    THEN <<[connection |-> "Border", id |-> i, sidewalk |-> 10 * i + 5]>>
    ELSE <<>>

SidewalkSpot_end_at_border(i) ==
    IF IntersectionInfo(i).sidewalk
    THEN <<[connection |-> "Border", id |-> i, sidewalk |-> 10 * i + 6]>>
    ELSE <<>>

\* Pathfinder::should_use_transit(map, start, goal): Some((stop1, stop2,
\* route)) where the map has a route between the two sidewalks.
should_use_transit(start_sidewalk, goal_sidewalk) ==
    IF start_sidewalk # goal_sidewalk /\ goal_sidewalk \in {2, 16}
    THEN <<[stop1 |-> start_sidewalk, stop2 |-> goal_sidewalk, route |-> 7]>>
    ELSE <<>>

RECURSIVE SortedSeq(_)
SortedSeq(S) ==
    IF S = {} THEN <<>>
    ELSE LET m == CHOOSE x \in S : \A y \in S : x <= y
         IN <<m>> \o SortedSeq(S \ {m})

----------------------------------------------------------------------------
VARIABLES
    scenario,            \* the Scenario being instantiated
    cap,                 \* map: number of parking spots on each road
    rng_seed,            \* Sim::new's rng_seed: <<>> or <<seed>>
    overflow_checks,     \* whether the build panics on integer overflow
    rng,                 \* the XorShiftRng passed to instantiate
    parked,              \* Sim: the parked vehicles, in id order
    car_id_counter,      \* Sim: the next vehicle id
    trips,               \* Sim: the trips scheduled and not yet realized
    spawned,             \* Sim: the trips realized, in realization order
    pc,                  \* instantiate's position
    ri,                  \* index of the request being processed
    bi,                  \* seed_parked_cars: index into owner_buildings
    remaining,           \* iterations left of the innermost loop
    open_spots_per_road, \* seed_parked_cars: road -> stack of free spots
    total_spots,         \* seed_parked_cars: total_spots
    new_cars,            \* seed_parked_cars: new_cars
    reserved_cars,       \* instantiate: reserved_cars
    warnings,            \* timer.warn / timer.note messages, in order
    pass,                \* history: the seed_parked_cars pass in progress
    lastSearch,          \* history: the last find_spot_near_building call
    lastAgent,           \* history: the last iteration of a spawning loop
    consumed,            \* history: the draws of the random stream
    run,                 \* history: 1 for the first run, 2 for the second
    prev,                \* history: what the first run produced
    sim,                 \* sim.rs: the Sim
    lane_type,           \* sim.rs: the map's lane types, which edits change
    benchmark,           \* sim.rs: the Benchmark of start_benchmark, if any
    sim_pc,              \* sim.rs: "idle", or "panic" once a call panicked
    calls,               \* sim.rs: the number of operations called so far
    primary_time,        \* speed.rs: ui.primary.sim.time(), in steps of 0.1 s
    speed_state,         \* speed.rs: SpeedControls.state
    screens,             \* speed.rs: the States above the sandbox, top last
    last_event           \* history: the last event handled in speed.rs

vars == <<scenario, cap, rng_seed, overflow_checks, rng, parked, car_id_counter,
          trips, spawned, pc, ri, bi, remaining, open_spots_per_road,
          total_spots, new_cars, reserved_cars, warnings, pass,
          lastSearch, lastAgent, consumed, run, prev, sim, lane_type,
          benchmark, sim_pc, calls, primary_time, speed_state, screens,
          last_event>>

\* The variables of speed.rs.
speed_vars == <<primary_time, speed_state, screens, last_event>>

\* The variables of Scenario::instantiate.
instantiate_vars ==
    <<scenario, cap, rng_seed, overflow_checks, rng, parked, car_id_counter,
      trips, spawned, pc, ri, bi, remaining, open_spots_per_road,
      total_spots, new_cars, reserved_cars, warnings, pass,
      lastSearch, lastAgent, consumed, run, prev>>

----------------------------------------------------------------------------
(* Sim: the parking state *)

\* A ParkingSpot is <<road, index>>.
IsOccupied(spot) == \E i \in 1 .. Len(parked) : parked[i].spot = spot

\* sim.get_free_spots over the parking lanes of road r, in lane order.
get_free_spots(r) ==
    LET all == [k \in 1 .. cap[r] |-> <<r, k>>]
    IN SelectSeq(all, LAMBDA sp : ~IsOccupied(sp))

\* sim.seed_parked_car(vehicle, spot, owner): the parking state afterwards.
seed_parked_car(vehicle, spot, owner) ==
    Append(parked, [id |-> car_id_counter, spot |-> spot, owner |-> owner,
                    vehicle |-> vehicle])

\* sim.get_parked_cars_by_owner(b), in id order.
get_parked_cars_by_owner(b) ==
    SelectSeq(parked, LAMBDA p : p.owner = <<b>>)

----------------------------------------------------------------------------
(* Vehicles *)

rand_dist(s, low, high) == GenRange(s, low, high)

rand_time(s, low, high) == GenRange(s, low, high)

rand_car(s) ==
    LET d == rand_dist(s, MIN_CAR_LENGTH, MAX_CAR_LENGTH)
    IN [v |-> [vehicle_type |-> "Car", length |-> d.v, max_speed |-> <<>>],
        s |-> d.s]

rand_bike(s) ==
    LET d == rand_dist(s, MIN_BIKE_LENGTH, MAX_BIKE_LENGTH)
    IN [v |-> [vehicle_type |-> "Bus", length |-> d.v, max_speed |-> <<10>>],
        s |-> d.s]

----------------------------------------------------------------------------
(* The parking allocator *)

\* An expansion that follows every road not yet visited, in the set or not.
RECURSIVE ExpandRoadsAnywhere(_, _, _, _)
ExpandRoadsAnywhere(nexts, queue, visited, neighborhoods_roads) ==
    IF nexts = <<>> THEN [queue |-> queue, visited |-> visited]
    ELSE LET next_r == Head(nexts)
         IN IF next_r \notin visited
            THEN ExpandRoadsAnywhere(Tail(nexts), Append(queue, next_r),
                                     visited \cup {next_r}, neighborhoods_roads)
            ELSE ExpandRoadsAnywhere(Tail(nexts), queue, visited,
                                     neighborhoods_roads)

\* The for loop over get_next_roads(r): the queue and the visited set after it.
RECURSIVE ExpandRoads(_, _, _, _)
ExpandRoads(nexts, queue, visited, neighborhoods_roads) ==
    IF nexts = <<>> THEN [queue |-> queue, visited |-> visited]
    ELSE LET next_r == Head(nexts)
         IN IF next_r \notin visited /\ next_r \in neighborhoods_roads
            THEN ExpandRoads(Tail(nexts), Append(queue, next_r),
                             visited \cup {next_r}, neighborhoods_roads)
            ELSE ExpandRoads(Tail(nexts), queue, visited, neighborhoods_roads)

\* A search that looks at the building's own road only.
SearchLoopOwnRoadOnly(queue, visited, stacks, roads, popped, enqueued) ==
    LET r == Head(queue)
    IN IF r \in DOMAIN stacks /\ stacks[r] # <<>>
       THEN [spot |-> <<stacks[r][Len(stacks[r])]>>,
             stacks |-> [stacks EXCEPT ![r] = SubSeq(@, 1, Len(@) - 1)],
             popped |-> Append(popped, r), enqueued |-> enqueued,
             gave_up |-> FALSE]
       ELSE [spot |-> <<>>, stacks |-> stacks, popped |-> Append(popped, r),
             enqueued |-> enqueued, gave_up |-> TRUE]

\* A search that goes on from the road it just left before it tries the
\* roads that were waiting (depth first).
RECURSIVE SearchLoopDepthFirst(_, _, _, _, _, _)
SearchLoopDepthFirst(queue, visited, stacks, roads, popped, enqueued) ==
    IF queue = <<>>
    THEN [spot |-> <<>>, stacks |-> stacks, popped |-> popped,
          enqueued |-> enqueued, gave_up |-> TRUE]
    ELSE LET r == Head(queue)
         IN IF r \in DOMAIN stacks /\ stacks[r] # <<>>
            THEN [spot |-> <<stacks[r][Len(stacks[r])]>>,
                  stacks |-> [stacks EXCEPT
                                 ![r] = SubSeq(@, 1, Len(@) - 1)],
                  popped |-> Append(popped, r), enqueued |-> enqueued,
                  gave_up |-> FALSE]
            ELSE LET e == ExpandRoads(get_next_roads(r), <<>>, visited, roads)
                 IN SearchLoopDepthFirst(e.queue \o Tail(queue), e.visited,
                                         stacks, roads, Append(popped, r),
                                         enqueued \o e.queue)

\* A search that says nothing when it runs out of roads.
RECURSIVE SearchLoopQuiet(_, _, _, _, _, _)
SearchLoopQuiet(queue, visited, stacks, roads, popped, enqueued) ==
    IF queue = <<>>
    THEN [spot |-> <<>>, stacks |-> stacks, popped |-> popped,
          enqueued |-> enqueued, gave_up |-> FALSE]
    ELSE LET r == Head(queue)
         IN IF r \in DOMAIN stacks /\ stacks[r] # <<>>
            THEN [spot |-> <<stacks[r][Len(stacks[r])]>>,
                  stacks |-> [stacks EXCEPT
                                 ![r] = SubSeq(@, 1, Len(@) - 1)],
                  popped |-> Append(popped, r), enqueued |-> enqueued,
                  gave_up |-> FALSE]
            ELSE LET e == ExpandRoads(get_next_roads(r), Tail(queue), visited,
                                      roads)
                 IN SearchLoopQuiet(e.queue, e.visited, stacks, roads,
                                    Append(popped, r),
                                    enqueued \o SubSeq(e.queue, Len(queue),
                                                       Len(e.queue)))

\* The loop of find_spot_near_building.  popped lists the roads taken from the
\* queue, enqueued the roads pushed to it, both in order.
RECURSIVE SearchLoop(_, _, _, _, _, _)
SearchLoop(queue, visited, stacks, neighborhoods_roads, popped, enqueued) ==
    IF queue = <<>>
    THEN [spot |-> <<>>, stacks |-> stacks, popped |-> popped,
          enqueued |-> enqueued, gave_up |-> TRUE]
    ELSE LET r == Head(queue)
         IN IF r \in DOMAIN stacks /\ stacks[r] # <<>>
            THEN [spot |-> <<stacks[r][Len(stacks[r])]>>,
                  stacks |-> [stacks EXCEPT
                                 ![r] = SubSeq(@, 1, Len(@) - 1)],
                  popped |-> Append(popped, r), enqueued |-> enqueued,
                  gave_up |-> FALSE]
            ELSE LET e == ExpandRoads(get_next_roads(r), Tail(queue), visited,
                                      neighborhoods_roads)
                 IN SearchLoop(e.queue, e.visited, stacks, neighborhoods_roads,
                               Append(popped, r),
                               enqueued \o SubSeq(e.queue, Len(queue),
                                                  Len(e.queue)))

\* A search that hands out the top of a stack and leaves it on the stack.
find_spot_without_pop(b, stacks, neighborhoods_roads) ==
    LET start == building_to_road(b)
        found == SearchLoop(<<start>>, {start}, stacks, neighborhoods_roads,
                            <<>>, <<start>>)
    IN [found EXCEPT !.stacks = stacks]

\* A search that tries the roads next to the building's road before that road.
find_spot_neighbours_first(b, stacks, neighborhoods_roads) ==
    LET start == building_to_road(b)
        e == ExpandRoads(get_next_roads(start), <<>>, {start},
                         neighborhoods_roads)
    IN SearchLoop(Append(e.queue, start), e.visited, stacks,
                  neighborhoods_roads, <<>>, Append(e.queue, start))

find_spot_near_building(b, stacks, neighborhoods_roads) ==
    LET start == building_to_road(b)
    IN SearchLoop(<<start>>, {start}, stacks, neighborhoods_roads,
                  <<>>, <<start>>)

\* A setup loop that collects the spots of each road's parking lanes once for
\* the forward lanes and once more for the backward lanes.
RECURSIVE CollectSpotsTwice(_, _)
CollectSpotsTwice(roads, acc) ==
    IF roads = <<>> THEN acc
    ELSE LET r == Head(roads)
             spots == get_free_spots(r) \o get_free_spots(r)
             f == ForkRng(acc.s)
         IN CollectSpotsTwice(Tail(roads),
                [stacks |-> acc.stacks @@ (r :> Shuffle(spots, f.v)),
                 total |-> acc.total + Len(spots),
                 s |-> f.s,
                 log |-> Append(acc.log, <<"seed", ri, "fork", "base", acc.s>>)])

\* The setup loop of seed_parked_cars over the neighborhood's roads, in the
\* set's order: each road's free spots, shuffled with a forked stream.
RECURSIVE CollectSpots(_, _)
CollectSpots(roads, acc) ==
    IF roads = <<>> THEN acc
    ELSE LET r == Head(roads)
             spots == get_free_spots(r)
             f == ForkRng(acc.s)
         IN CollectSpots(Tail(roads),
                [stacks |-> acc.stacks @@ (r :> Shuffle(spots, f.v)),
                 total |-> acc.total + Len(spots),
                 s |-> f.s,
                 log |-> Append(acc.log, <<"seed", ri, "fork", "base", acc.s>>)])

----------------------------------------------------------------------------
(* Scenario::instantiate, step by step *)

SeedRequest == scenario.seed_parked_cars[ri]
owner_buildings == Neighborhoods[SeedRequest.neighborhood].buildings
neighborhoods_roads == Neighborhoods[SeedRequest.neighborhood].roads

NoSearch == [b |-> 0, roads |-> {}, before |-> <<>>, result |-> <<>>]

\* The number of spots free on the roads of a set, counted on the Sim.
FreeOn(roads) ==
    Cardinality({sp \in UNION {{<<r, k>> : k \in 1 .. cap[r]} : r \in roads} :
                    ~IsOccupied(sp)})

\* for s in &self.seed_parked_cars: the check of the neighborhood's name and
\* the setup of seed_parked_cars.
SeedBegin ==
    /\ pc = "seed_parked_cars"
    /\ ri <= Len(scenario.seed_parked_cars)
    /\ IF SeedRequest.neighborhood \notin DOMAIN Neighborhoods
       THEN /\ pc' = "panic"
            /\ UNCHANGED <<rng, open_spots_per_road, total_spots, new_cars, bi,
                           pass, consumed>>
       ELSE LET c == CollectSpots(SortedSeq(neighborhoods_roads),
                        [stacks |-> <<>>, total |-> 0, s |-> rng, log |-> <<>>])
            IN /\ open_spots_per_road' = c.stacks
               /\ total_spots' = c.total
               /\ rng' = c.s
               /\ consumed' = consumed \o c.log
               /\ new_cars' = 0
               /\ pass' = [requested |-> 0, no_room |-> 0,
                            first_id |-> car_id_counter,
                            free |-> FreeOn(neighborhoods_roads)]
               /\ bi' = 1
               /\ pc' = "seed_building"
    /\ UNCHANGED <<scenario, cap, rng_seed, overflow_checks, parked,
                   car_id_counter, trips, spawned, ri, remaining,
                   reserved_cars, warnings, lastSearch, lastAgent, run, prev,
                   sim, lane_type, benchmark, sim_pc, calls, primary_time,
                   speed_state, screens, last_event>>

\* for b in owner_buildings: cars_per_building.sample(base_rng) fixes the
\* number of iterations of the inner loop.
SeedBuilding ==
    /\ pc = "seed_building"
    /\ bi <= Len(owner_buildings)
    /\ LET n == Sample(rng, SeedRequest.cars_per_building)
       IN /\ rng' = n.s
          /\ consumed' = Append(consumed, <<"seed", ri, "count", "base", rng>>)
          /\ pass' = [pass EXCEPT !.requested = @ + n.v]
          /\ remaining' = n.v
          /\ IF n.v = 0
             THEN bi' = bi + 1 /\ pc' = "seed_building"
             ELSE bi' = bi /\ pc' = "seed_car"
    /\ UNCHANGED <<scenario, cap, rng_seed, overflow_checks, parked,
                   car_id_counter, trips, spawned, ri, open_spots_per_road,
                   total_spots, new_cars, reserved_cars, warnings, lastSearch,
                   lastAgent, run, prev, sim, lane_type, benchmark, sim_pc,
                   calls, primary_time, speed_state, screens, last_event>>

\* One iteration of the inner loop: fork the stream, search a spot, and seed
\* the car or warn.
SeedCar ==
    /\ pc = "seed_car"
    /\ LET b == owner_buildings[bi]
           forked_rng == ForkRng(rng)
           found == find_spot_near_building(b, open_spots_per_road,
                                            neighborhoods_roads)
           car == rand_car(forked_rng.v)
       IN /\ rng' = forked_rng.s
          /\ lastSearch' = [b |-> b, roads |-> neighborhoods_roads,
                            before |-> open_spots_per_road,
                            result |-> <<found>>]
          /\ open_spots_per_road' = found.stacks
          /\ IF found.spot # <<>>
             THEN /\ parked' = seed_parked_car(car.v, found.spot[1], <<b>>)
                  /\ car_id_counter' = car_id_counter + 1
                  /\ new_cars' = new_cars + 1
                  /\ warnings' = warnings \o
                        (IF found.gave_up THEN << <<"Giving up", b>> >>
                         ELSE <<>>)
                  /\ pass' = pass
                  /\ consumed' = consumed \o
                        << <<"seed", ri, "fork", "base", rng>>,
                           <<"seed", ri, "length", "fork", forked_rng.v>> >>
             ELSE /\ warnings' = warnings \o
                        (IF found.gave_up THEN << <<"Giving up", b>> >>
                         ELSE <<>>) \o << <<"No room", b>> >>
                  /\ pass' = [pass EXCEPT !.no_room = @ + 1]
                  /\ consumed' = Append(consumed,
                                        <<"seed", ri, "fork", "base", rng>>)
                  /\ UNCHANGED <<parked, car_id_counter, new_cars>>
          /\ remaining' = remaining - 1
          /\ IF remaining = 1
             THEN bi' = bi + 1 /\ pc' = "seed_building"
             ELSE bi' = bi /\ pc' = "seed_car"
    /\ UNCHANGED <<scenario, cap, rng_seed, overflow_checks, trips, spawned,
                   ri, total_spots, reserved_cars, lastAgent, run, prev, sim,
                   lane_type, benchmark, sim_pc, calls, primary_time,
                   speed_state, screens, last_event>>

\* usize arithmetic wraps modulo 2^w; the width is scaled down to 16 bits.
UsizeMod == 2^16

\* After the loop over the buildings: the note, whose last figure is
\* owner_buildings.len() - new_cars on unsigned integers.  When new_cars is
\* the larger, a build with overflow checks panics and one without wraps.
SeedEnd ==
    /\ pc = "seed_building"
    /\ bi > Len(owner_buildings)
    /\ IF new_cars > Len(owner_buildings) /\ overflow_checks
       THEN pc' = "panic" /\ UNCHANGED <<warnings, ri>>
       ELSE /\ warnings' = Append(warnings,
                                  <<"Seeded", (Len(owner_buildings) - new_cars)
                                                 % UsizeMod>>)
            /\ ri' = ri + 1
            /\ pc' = "seed_parked_cars"
    /\ UNCHANGED <<scenario, cap, rng_seed, overflow_checks, rng, parked,
                   car_id_counter, trips, spawned, bi, remaining,
                   open_spots_per_road, total_spots, new_cars, reserved_cars,
                   pass, lastSearch, lastAgent, consumed, run, prev, sim,
                   lane_type, benchmark, sim_pc, calls, primary_time,
                   speed_state, screens, last_event>>

----------------------------------------------------------------------------
(* The goal resolver.  Each function returns the goal (an option), the     *)
(* stream afterwards, the warnings it reported, the draws it made and      *)
(* whether it panicked.                                                    *)

ParkNear(b) == [kind |-> "ParkNear", id |-> b, lane |-> 0]
GoalBorder(i, l) == [kind |-> "Border", id |-> i, lane |-> l]

\* neighborhoods[n].buildings.choose(rng).unwrap(): indexing the map by an
\* absent name panics, and so does unwrapping the choice of no building.
ChooseGoalBuilding(n, s) ==
    IF n \notin DOMAIN Neighborhoods
    THEN [v |-> <<>>, s |-> s, panic |-> TRUE, draws |-> <<>>]
    ELSE LET c == Choose(s, Neighborhoods[n].buildings)
         IN [v |-> c.v, s |-> c.s, panic |-> c.v = <<>>, draws |-> <<s>>]

\* A driving goal resolved as the biking goal is, on the biking lanes too.
pick_driving_goal_on_any_lane(goal, s) ==
    IF goal.kind = "Neighborhood"
    THEN LET c == ChooseGoalBuilding(goal.name, s)
         IN [v |-> IF c.panic THEN <<>> ELSE <<ParkNear(c.v[1])>>, s |-> c.s,
             panic |-> c.panic, draws |-> c.draws, warn |-> <<>>]
    ELSE LET lanes == get_incoming_lanes(goal.i, "Biking")
                      \o get_incoming_lanes(goal.i, "Driving")
         IN IF lanes = <<>>
            THEN [v |-> <<>>, s |-> s, panic |-> FALSE, draws |-> <<>>,
                  warn |-> << <<"Can't spawn a car ending at border", goal.i>> >>]
            ELSE [v |-> <<GoalBorder(goal.i, lanes[1])>>, s |-> s,
                  panic |-> FALSE, draws |-> <<>>, warn |-> <<>>]

pick_driving_goal(goal, s) ==
    IF goal.kind = "Neighborhood"
    THEN LET c == ChooseGoalBuilding(goal.name, s)
         IN [v |-> IF c.panic THEN <<>> ELSE <<ParkNear(c.v[1])>>, s |-> c.s,
             panic |-> c.panic, draws |-> c.draws, warn |-> <<>>]
    ELSE LET lanes == get_incoming_lanes(goal.i, "Driving")
         IN IF lanes = <<>>
            THEN [v |-> <<>>, s |-> s, panic |-> FALSE, draws |-> <<>>,
                  warn |-> << <<"Can't spawn a car ending at border", goal.i>> >>]
            ELSE [v |-> <<GoalBorder(goal.i, lanes[1])>>, s |-> s,
                  panic |-> FALSE, draws |-> <<>>, warn |-> <<>>]

pick_biking_goal(goal, s) ==
    IF goal.kind = "Neighborhood"
    THEN LET c == ChooseGoalBuilding(goal.name, s)
         IN [v |-> IF c.panic THEN <<>> ELSE <<ParkNear(c.v[1])>>, s |-> c.s,
             panic |-> c.panic, draws |-> c.draws, warn |-> <<>>]
    ELSE LET lanes == get_incoming_lanes(goal.i, "Biking")
                      \o get_incoming_lanes(goal.i, "Driving")
         IN IF lanes = <<>>
            THEN [v |-> <<>>, s |-> s, panic |-> FALSE, draws |-> <<>>,
                  warn |-> << <<"Can't spawn a bike ending at border", goal.i>> >>]
            ELSE [v |-> <<GoalBorder(goal.i, lanes[1])>>, s |-> s,
                  panic |-> FALSE, draws |-> <<>>, warn |-> <<>>]

pick_walking_goal(goal, s) ==
    IF goal.kind = "Neighborhood"
    THEN LET c == ChooseGoalBuilding(goal.name, s)
         IN [v |-> IF c.panic THEN <<>>
                   ELSE <<SidewalkSpot_building(c.v[1])>>,
             s |-> c.s, panic |-> c.panic, draws |-> c.draws, warn |-> <<>>]
    ELSE LET g == SidewalkSpot_end_at_border(goal.i)
         IN [v |-> g, s |-> s, panic |-> FALSE, draws |-> <<>>,
             warn |-> IF g = <<>>
                      THEN << <<"Can't end_at_border", goal.i>> >>
                      ELSE <<>>]

----------------------------------------------------------------------------
(* Trips *)

TripSpec(kind, start, spot, pos, vehicle, dgoal, wgoal, transit) ==
    [kind |-> kind, start |-> start, spot |-> spot, pos |-> pos,
     vehicle |-> vehicle, dgoal |-> dgoal, wgoal |-> wgoal,
     transit |-> transit]

UsingParkedCar(start, spot, goal) ==
    TripSpec("UsingParkedCar", <<start>>, <<spot>>, <<>>, <<>>, <<goal>>,
             <<>>, <<>>)

UsingBike(start, vehicle, goal) ==
    TripSpec("UsingBike", <<start>>, <<>>, <<>>, <<vehicle>>, <<goal>>,
             <<>>, <<>>)

JustWalking(start, goal) ==
    TripSpec("JustWalking", <<start>>, <<>>, <<>>, <<>>, <<>>, <<goal>>, <<>>)

UsingTransit(start, route, stop1, stop2, goal) ==
    TripSpec("UsingTransit", <<start>>, <<>>, <<>>, <<>>, <<>>, <<goal>>,
             <<[route |-> route, stop1 |-> stop1, stop2 |-> stop2]>>)

CarAppearing(lane, dist, vehicle, goal) ==
    TripSpec("CarAppearing", <<>>, <<>>, <<<<lane, dist>>>>, <<vehicle>>,
             <<goal>>, <<>>, <<>>)

\* What one iteration of a spawning loop did: the trips it scheduled (none or
\* one), the vehicles it reserved, the stream afterwards, the warnings, the
\* draws, the rule of the mode choice it took and whether it panicked.
Outcome(rule, specs, reserve, s, panic, warn, draws) ==
    [rule |-> rule, specs |-> specs, reserve |-> reserve, s |-> s,
     panic |-> panic, warn |-> warn, draws |-> draws]

\* A walking rule that takes the route whenever the map has one, whatever the
\* transit roll says.
WalkOrTransitWhateverRoll(start_spot, goal, percent_use_transit, s) ==
    LET roll == GenBool(s, percent_use_transit)
        route == should_use_transit(start_spot.sidewalk, goal.sidewalk)
    IN [spec |-> IF route # <<>>
                 THEN UsingTransit(start_spot, route[1].route, route[1].stop1,
                                   route[1].stop2, goal)
                 ELSE JustWalking(start_spot, goal),
        s |-> roll.s,
        draws |-> << <<"roll_transit", "base", s>> >>]

\* The walking rule once the goal is resolved: the transit roll, the route
\* query, and the trip.
WalkOrTransit(start_spot, goal, percent_use_transit, s) ==
    LET roll == GenBool(s, percent_use_transit)
        route == should_use_transit(start_spot.sidewalk, goal.sidewalk)
    IN [spec |-> IF roll.v /\ route # <<>>
                 THEN UsingTransit(start_spot, route[1].route, route[1].stop1,
                                   route[1].stop2, goal)
                 ELSE JustWalking(start_spot, goal),
        s |-> roll.s,
        draws |-> << <<"roll_transit", "base", s>> >>]

GoalDraws(g) == [k \in 1 .. Len(g.draws) |-> <<"goal", "base", g.draws[k]>>]

\* Rule 1: the origin building owns a parked car that is not reserved.
CarRule(req, from_bldg, parked_car, s) ==
    LET g == pick_driving_goal(req.goal, s)
    IN IF g.v # <<>>
       THEN Outcome("car",
                    <<UsingParkedCar(SidewalkSpot_building(from_bldg),
                                     parked_car.spot, g.v[1])>>,
                    {parked_car.id}, g.s, FALSE, g.warn, GoalDraws(g))
       ELSE Outcome("car", <<>>, {}, g.s, g.panic, g.warn, GoalDraws(g))

\* A biking rule that schedules the trip whatever the two sidewalks are.
BikeRuleAnySidewalk(req, from_bldg, s) ==
    LET g == pick_biking_goal(req.goal, s)
        bike == rand_bike(g.s)
    IN IF g.v # <<>>
       THEN Outcome("bike",
                    <<UsingBike(SidewalkSpot_building(from_bldg), bike.v,
                                g.v[1])>>,
                    {}, bike.s, FALSE, g.warn,
                    Append(GoalDraws(g), <<"length", "base", g.s>>))
       ELSE Outcome("bike", <<>>, {}, g.s, g.panic, g.warn, GoalDraws(g))

\* Rule 2: the biking roll succeeded.
BikeRule(req, from_bldg, s) ==
    LET g == pick_biking_goal(req.goal, s)
        skip == IF g.v # <<>> /\ g.v[1].kind = "ParkNear"
                THEN BuildingSidewalk(g.v[1].id) = BuildingSidewalk(from_bldg)
                ELSE FALSE
        bike == rand_bike(g.s)
    IN IF g.v # <<>> /\ ~skip
       THEN Outcome("bike",
                    <<UsingBike(SidewalkSpot_building(from_bldg), bike.v,
                                g.v[1])>>,
                    {}, bike.s, FALSE, g.warn,
                    Append(GoalDraws(g), <<"length", "base", g.s>>))
       ELSE Outcome("bike", <<>>, {}, g.s, g.panic, g.warn, GoalDraws(g))

\* Rule 3: walking, by transit when the roll and the route allow.
WalkRule(req, from_bldg, s) ==
    LET g == pick_walking_goal(req.goal, s)
        w == WalkOrTransit(SidewalkSpot_building(from_bldg), g.v[1],
                           req.percent_use_transit, g.s)
    IN IF g.v # <<>>
       THEN Outcome("walk", <<w.spec>>, {}, w.s, FALSE, g.warn,
                    GoalDraws(g) \o w.draws)
       ELSE Outcome("walk", <<>>, {}, g.s, g.panic, g.warn, GoalDraws(g))

\* A mode choice that goes on to the biking and walking rules when the driving
\* goal of the car rule is unresolved.
ChooseModeFallThrough(req, from_bldg, s, reserved) ==
    LET free == SelectSeq(get_parked_cars_by_owner(from_bldg),
                          LAMBDA p : p.id \notin reserved)
        car == CarRule(req, from_bldg, free[1], s)
        s2 == IF free # <<>> THEN car.s ELSE s
        roll == GenBool(s2, req.percent_biking)
        rest == IF roll.v THEN BikeRule(req, from_bldg, roll.s)
                ELSE WalkRule(req, from_bldg, roll.s)
    IN IF free # <<>> /\ (car.specs # <<>> \/ car.panic) THEN car
       ELSE [rest EXCEPT !.draws = << <<"roll_bike", "base", s2>> >> \o @]

\* A mode choice that takes the building's first parked car, reserved or not.
ChooseModeAnyCar(req, from_bldg, s, reserved) ==
    LET owned == get_parked_cars_by_owner(from_bldg)
        roll == GenBool(s, req.percent_biking)
        rest == IF roll.v THEN BikeRule(req, from_bldg, roll.s)
                ELSE WalkRule(req, from_bldg, roll.s)
    IN IF owned # <<>> THEN CarRule(req, from_bldg, owned[1], s)
       ELSE [rest EXCEPT !.draws = << <<"roll_bike", "base", s>> >> \o @]

\* The mode choice of one SpawnOverTime agent starting at from_bldg.
ChooseMode(req, from_bldg, s, reserved) ==
    LET free == SelectSeq(get_parked_cars_by_owner(from_bldg),
                          LAMBDA p : p.id \notin reserved)
        roll == GenBool(s, req.percent_biking)
        rest == IF roll.v THEN BikeRule(req, from_bldg, roll.s)
                ELSE WalkRule(req, from_bldg, roll.s)
    IN IF free # <<>> THEN CarRule(req, from_bldg, free[1], s)
       ELSE [rest EXCEPT !.draws = << <<"roll_bike", "base", s>> >> \o @]

\* One iteration of the loop over the agents of a SpawnOverTime request: the
\* spawn time, the origin building and the mode choice.
SpawnAgentOutcome(req, s, reserved) ==
    LET t == rand_time(s, req.start_time, req.stop_time)
        c == Choose(t.s, Neighborhoods[req.start_from_neighborhood].buildings)
        m == ChooseMode(req, c.v[1], c.s, reserved)
    IN IF c.v = <<>>
       THEN [time |-> t.v, bldg |-> 0,
             out |-> Outcome("none", <<>>, {}, c.s, TRUE, <<>>,
                             << <<"time", "base", s>> >>)]
       ELSE [time |-> t.v, bldg |-> c.v[1],
             out |-> [m EXCEPT !.draws = << <<"time", "base", s>>,
                                            <<"origin", "base", t.s>> >> \o @]]

\* sim.schedule_trip(time, spec): the queue afterwards.  by names the request
\* that scheduled the trip.
schedule_trip(queue, time, specs, by) ==
    queue \o [k \in 1 .. Len(specs) |->
                 [time |-> time, spec |-> specs[k], by |-> by]]

\* sim.spawn_all_trips: the queued trips by spawn time, then insertion order.
RECURSIVE InsertByTime(_, _)
InsertByTime(sorted, trip) ==
    IF sorted = <<>> THEN <<trip>>
    ELSE IF Head(sorted).time <= trip.time
         THEN <<Head(sorted)>> \o InsertByTime(Tail(sorted), trip)
         ELSE <<trip>> \o sorted

RECURSIVE SortTrips(_, _)
SortTrips(queue, sorted) ==
    IF queue = <<>> THEN sorted
    ELSE SortTrips(Tail(queue), InsertByTime(sorted, Head(queue)))

spawn_all_trips(queue) == SortTrips(queue, <<>>)

Logged(kind, draws) ==
    [k \in 1 .. Len(draws) |-> <<kind, ri>> \o draws[k]]

\* An iteration that counts only when it scheduled a trip, so that a trial
\* without a trip is made again.
ApplyIterationRetry(kind, bldg, time, out) ==
    /\ rng' = out.s
    /\ lastAgent' = [kind |-> kind, ri |-> ri, bldg |-> bldg, time |-> time,
                     reserved |-> reserved_cars, out |-> out]
    /\ trips' = schedule_trip(trips, time, out.specs, <<kind, ri>>)
    /\ reserved_cars' = reserved_cars \cup out.reserve
    /\ warnings' = warnings \o out.warn
    /\ consumed' = consumed \o Logged(kind, out.draws)
    /\ IF out.panic
       THEN pc' = "panic" /\ remaining' = remaining
       ELSE pc' = pc /\ remaining' = remaining - Len(out.specs)

\* The state after one iteration of a spawning loop.
ApplyIteration(kind, bldg, time, out) ==
    /\ rng' = out.s
    /\ lastAgent' = [kind |-> kind, ri |-> ri, bldg |-> bldg, time |-> time,
                     reserved |-> reserved_cars, out |-> out]
    /\ trips' = schedule_trip(trips, time, out.specs, <<kind, ri>>)
    /\ reserved_cars' = reserved_cars \cup out.reserve
    /\ warnings' = warnings \o out.warn
    /\ consumed' = consumed \o Logged(kind, out.draws)
    /\ IF out.panic
       THEN pc' = "panic" /\ remaining' = remaining
       ELSE pc' = pc /\ remaining' = remaining - 1

\* The seed_parked_cars requests are done: reserved_cars is created.
SeedFinish ==
    /\ pc = "seed_parked_cars"
    /\ ri > Len(scenario.seed_parked_cars)
    /\ pc' = "spawn_over_time"
    /\ ri' = 1
    /\ reserved_cars' = {}
    /\ UNCHANGED <<scenario, cap, rng_seed, overflow_checks, rng, parked,
                   car_id_counter, trips, spawned, bi, remaining,
                   open_spots_per_road, total_spots, new_cars, warnings, pass,
                   lastSearch, lastAgent, consumed, run, prev, sim, lane_type,
                   benchmark, sim_pc, calls, primary_time, speed_state,
                   screens, last_event>>

SpawnRequest == scenario.spawn_over_time[ri]

\* for s in &self.spawn_over_time: the check of the neighborhood's name.
SpawnBegin ==
    /\ pc = "spawn_over_time"
    /\ ri <= Len(scenario.spawn_over_time)
    /\ IF SpawnRequest.start_from_neighborhood \notin DOMAIN Neighborhoods
       THEN pc' = "panic" /\ remaining' = remaining
       ELSE pc' = "spawn_agent" /\ remaining' = SpawnRequest.num_agents
    /\ UNCHANGED <<scenario, cap, rng_seed, overflow_checks, rng, parked,
                   car_id_counter, trips, spawned, ri, bi, open_spots_per_road,
                   total_spots, new_cars, reserved_cars, warnings, pass,
                   lastSearch, lastAgent, consumed, run, prev, sim, lane_type,
                   benchmark, sim_pc, calls, primary_time, speed_state,
                   screens, last_event>>

\* for _ in 0..s.num_agents: one agent.
SpawnAgent ==
    /\ pc = "spawn_agent"
    /\ remaining > 0
    /\ LET a == SpawnAgentOutcome(SpawnRequest, rng, reserved_cars)
       IN ApplyIteration("spawn", a.bldg, a.time, a.out)
    /\ UNCHANGED <<scenario, cap, rng_seed, overflow_checks, parked,
                   car_id_counter, spawned, ri, bi, open_spots_per_road,
                   total_spots, new_cars, pass, lastSearch, run, prev, sim,
                   lane_type, benchmark, sim_pc, calls, primary_time,
                   speed_state, screens, last_event>>

SpawnEnd ==
    /\ pc = "spawn_agent"
    /\ remaining = 0
    /\ ri' = ri + 1
    /\ pc' = "spawn_over_time"
    /\ UNCHANGED <<scenario, cap, rng_seed, overflow_checks, rng, parked,
                   car_id_counter, trips, spawned, bi, remaining,
                   open_spots_per_road, total_spots, new_cars, reserved_cars,
                   warnings, pass, lastSearch, lastAgent, consumed, run, prev,
                   sim, lane_type, benchmark, sim_pc, calls, primary_time,
                   speed_state, screens, last_event>>

SpawnFinish ==
    /\ pc = "spawn_over_time"
    /\ ri > Len(scenario.spawn_over_time)
    /\ pc' = "border_spawn"
    /\ ri' = 1
    /\ UNCHANGED <<scenario, cap, rng_seed, overflow_checks, rng, parked,
                   car_id_counter, trips, spawned, bi, remaining,
                   open_spots_per_road, total_spots, new_cars, reserved_cars,
                   warnings, pass, lastSearch, lastAgent, consumed, run, prev,
                   sim, lane_type, benchmark, sim_pc, calls, primary_time,
                   speed_state, screens, last_event>>

BorderRequest == scenario.border_spawn_over_time[ri]

starting_driving_lanes == get_outgoing_lanes(BorderRequest.start_from_border,
                                             "Driving")

starting_biking_lanes ==
    get_outgoing_lanes(BorderRequest.start_from_border, "Biking")
    \o SelectSeq(starting_driving_lanes, LAMBDA l : supports_bikes(l))

\* One pedestrian of a BorderSpawnOverTime request.
BorderPedOutcome(req, start, s) ==
    LET t == rand_time(s, req.start_time, req.stop_time)
        g == pick_walking_goal(req.goal, t.s)
        w == WalkOrTransit(start, g.v[1], req.percent_use_transit, g.s)
        d == << <<"time", "base", s>> >> \o GoalDraws(g)
    IN [time |-> t.v,
        out |-> IF g.v # <<>>
                THEN Outcome("walk", <<w.spec>>, {}, w.s, FALSE, g.warn,
                             d \o w.draws)
                ELSE Outcome("walk", <<>>, {}, g.s, g.panic, g.warn, d)]

\* One car of a BorderSpawnOverTime request.
BorderCarOutcome(req, lane, s) ==
    LET t == rand_time(s, req.start_time, req.stop_time)
        g == pick_driving_goal(req.goal, t.s)
        car == rand_car(g.s)
        d == << <<"time", "base", s>> >> \o GoalDraws(g)
    IN [time |-> t.v,
        out |-> IF g.v # <<>>
                THEN Outcome("car", <<CarAppearing(lane, 0, car.v, g.v[1])>>,
                             {}, car.s, FALSE, g.warn,
                             Append(d, <<"length", "base", g.s>>))
                ELSE Outcome("car", <<>>, {}, g.s, g.panic, g.warn, d)]

\* One bike of a BorderSpawnOverTime request.
BorderBikeOutcome(req, lane, s) ==
    LET t == rand_time(s, req.start_time, req.stop_time)
        g == pick_biking_goal(req.goal, t.s)
        bike == rand_bike(g.s)
        d == << <<"time", "base", s>> >> \o GoalDraws(g)
    IN [time |-> t.v,
        out |-> IF g.v # <<>>
                THEN Outcome("bike",
                             <<CarAppearing(lane, bike.v.length, bike.v,
                                            g.v[1])>>,
                             {}, bike.s, FALSE, g.warn,
                             Append(d, <<"length", "base", g.s>>))
                ELSE Outcome("bike", <<>>, {}, g.s, g.panic, g.warn, d)]

\* for s in &self.border_spawn_over_time: the pedestrians start at the
\* border's sidewalk, if it has one.
BorderBegin ==
    /\ pc = "border_spawn"
    /\ ri <= Len(scenario.border_spawn_over_time)
    /\ LET start == SidewalkSpot_start_at_border(BorderRequest.start_from_border)
       IN /\ remaining' = IF start # <<>> THEN BorderRequest.num_peds ELSE 0
          /\ warnings' =
                IF start = <<>> /\ BorderRequest.num_peds > 0
                THEN Append(warnings, <<"Can't start_at_border",
                                        BorderRequest.start_from_border>>)
                ELSE warnings
    /\ pc' = "border_peds"
    /\ UNCHANGED <<scenario, cap, rng_seed, overflow_checks, rng, parked,
                   car_id_counter, trips, spawned, ri, bi, open_spots_per_road,
                   total_spots, new_cars, reserved_cars, pass, lastSearch,
                   lastAgent, consumed, run, prev, sim, lane_type, benchmark,
                   sim_pc, calls, primary_time, speed_state, screens,
                   last_event>>

BorderPed ==
    /\ pc = "border_peds"
    /\ remaining > 0
    /\ LET start == SidewalkSpot_start_at_border(BorderRequest.start_from_border)
           a == BorderPedOutcome(BorderRequest, start[1], rng)
       IN ApplyIteration("border", 0, a.time, a.out)
    /\ UNCHANGED <<scenario, cap, rng_seed, overflow_checks, parked,
                   car_id_counter, spawned, ri, bi, open_spots_per_road,
                   total_spots, new_cars, pass, lastSearch, run, prev, sim,
                   lane_type, benchmark, sim_pc, calls, primary_time,
                   speed_state, screens, last_event>>

\* A start of the cars that does not look at the length of the lane.
BorderCarsBeginAnyLength ==
    /\ pc = "border_peds"
    /\ remaining = 0
    /\ IF starting_driving_lanes # <<>>
       THEN /\ remaining' = BorderRequest.num_cars
            /\ warnings' = warnings
       ELSE /\ remaining' = 0
            /\ warnings' =
                  IF BorderRequest.num_cars > 0
                  THEN Append(warnings, <<"Can't start car at border",
                                          BorderRequest.start_from_border>>)
                  ELSE warnings
    /\ pc' = "border_cars"
    /\ UNCHANGED <<scenario, cap, rng_seed, overflow_checks, rng, parked,
                   car_id_counter, trips, spawned, ri, bi, open_spots_per_road,
                   total_spots, new_cars, reserved_cars, pass, lastSearch,
                   lastAgent, consumed, run, prev, sim, lane_type, benchmark,
                   sim_pc, calls, primary_time, speed_state, screens,
                   last_event>>

\* The cars need an outgoing driving lane, the first of which must not be
\* shorter than the longest car.
BorderCarsBegin ==
    /\ pc = "border_peds"
    /\ remaining = 0
    /\ IF starting_driving_lanes # <<>>
       THEN IF LaneLength(starting_driving_lanes[1]) < MAX_CAR_LENGTH
            THEN /\ remaining' = 0
                 /\ warnings' = Append(warnings,
                        <<"Skipping, too short to spawn cars",
                          BorderRequest.start_from_border>>)
            ELSE /\ remaining' = BorderRequest.num_cars
                 /\ warnings' = warnings
       ELSE /\ remaining' = 0
            /\ warnings' =
                  IF BorderRequest.num_cars > 0
                  THEN Append(warnings, <<"Can't start car at border",
                                          BorderRequest.start_from_border>>)
                  ELSE warnings
    /\ pc' = "border_cars"
    /\ UNCHANGED <<scenario, cap, rng_seed, overflow_checks, rng, parked,
                   car_id_counter, trips, spawned, ri, bi, open_spots_per_road,
                   total_spots, new_cars, reserved_cars, pass, lastSearch,
                   lastAgent, consumed, run, prev, sim, lane_type, benchmark,
                   sim_pc, calls, primary_time, speed_state, screens,
                   last_event>>

BorderCar ==
    /\ pc = "border_cars"
    /\ remaining > 0
    /\ LET a == BorderCarOutcome(BorderRequest, starting_driving_lanes[1], rng)
       IN ApplyIteration("border", 0, a.time, a.out)
    /\ UNCHANGED <<scenario, cap, rng_seed, overflow_checks, parked,
                   car_id_counter, spawned, ri, bi, open_spots_per_road,
                   total_spots, new_cars, pass, lastSearch, run, prev, sim,
                   lane_type, benchmark, sim_pc, calls, primary_time,
                   speed_state, screens, last_event>>

\* A start of the bikes that is nested in the branch of the cars: without an
\* outgoing driving lane the bikes are not spawned either.
BorderBikesBeginAfterCars ==
    /\ pc = "border_cars"
    /\ remaining = 0
    /\ IF starting_biking_lanes # <<>> /\ starting_driving_lanes # <<>>
       THEN /\ remaining' = BorderRequest.num_bikes
            /\ warnings' = warnings
       ELSE /\ remaining' = 0
            /\ warnings' =
                  IF BorderRequest.num_bikes > 0 /\ starting_biking_lanes = <<>>
                  THEN Append(warnings, <<"Can't start bike at border",
                                          BorderRequest.start_from_border>>)
                  ELSE warnings
    /\ pc' = "border_bikes"
    /\ UNCHANGED <<scenario, cap, rng_seed, overflow_checks, rng, parked,
                   car_id_counter, trips, spawned, ri, bi, open_spots_per_road,
                   total_spots, new_cars, reserved_cars, pass, lastSearch,
                   lastAgent, consumed, run, prev, sim, lane_type, benchmark,
                   sim_pc, calls, primary_time, speed_state, screens,
                   last_event>>

\* The bikes need an outgoing biking lane, or a driving lane of a road that
\* supports bikes.
BorderBikesBegin ==
    /\ pc = "border_cars"
    /\ remaining = 0
    /\ IF starting_biking_lanes # <<>>
       THEN /\ remaining' = BorderRequest.num_bikes
            /\ warnings' = warnings
       ELSE /\ remaining' = 0
            /\ warnings' =
                  IF BorderRequest.num_bikes > 0
                  THEN Append(warnings, <<"Can't start bike at border",
                                          BorderRequest.start_from_border>>)
                  ELSE warnings
    /\ pc' = "border_bikes"
    /\ UNCHANGED <<scenario, cap, rng_seed, overflow_checks, rng, parked,
                   car_id_counter, trips, spawned, ri, bi, open_spots_per_road,
                   total_spots, new_cars, reserved_cars, pass, lastSearch,
                   lastAgent, consumed, run, prev, sim, lane_type, benchmark,
                   sim_pc, calls, primary_time, speed_state, screens,
                   last_event>>

BorderBike ==
    /\ pc = "border_bikes"
    /\ remaining > 0
    /\ LET a == BorderBikeOutcome(BorderRequest, starting_biking_lanes[1], rng)
       IN ApplyIteration("border", 0, a.time, a.out)
    /\ UNCHANGED <<scenario, cap, rng_seed, overflow_checks, parked,
                   car_id_counter, spawned, ri, bi, open_spots_per_road,
                   total_spots, new_cars, pass, lastSearch, run, prev, sim,
                   lane_type, benchmark, sim_pc, calls, primary_time,
                   speed_state, screens, last_event>>

\* An end of a border request that has the Sim realize the trips queued so far.
BorderEndSpawning ==
    /\ pc = "border_bikes"
    /\ remaining = 0
    /\ ri' = ri + 1
    /\ pc' = "border_spawn"
    /\ spawned' = spawned \o spawn_all_trips(trips)
    /\ trips' = <<>>
    /\ UNCHANGED <<scenario, cap, rng_seed, overflow_checks, rng, parked,
                   car_id_counter, bi, remaining, open_spots_per_road,
                   total_spots, new_cars, reserved_cars, warnings, pass,
                   lastSearch, lastAgent, consumed, run, prev, sim, lane_type,
                   benchmark, sim_pc, calls, primary_time, speed_state,
                   screens, last_event>>

BorderEnd ==
    /\ pc = "border_bikes"
    /\ remaining = 0
    /\ ri' = ri + 1
    /\ pc' = "border_spawn"
    /\ UNCHANGED <<scenario, cap, rng_seed, overflow_checks, rng, parked,
                   car_id_counter, trips, spawned, bi, remaining,
                   open_spots_per_road, total_spots, new_cars, reserved_cars,
                   warnings, pass, lastSearch, lastAgent, consumed, run, prev,
                   sim, lane_type, benchmark, sim_pc, calls, primary_time,
                   speed_state, screens, last_event>>

\* sim.spawn_all_trips(map), after the last request.
SpawnAllTrips ==
    /\ pc = "border_spawn"
    /\ ri > Len(scenario.border_spawn_over_time)
    /\ spawned' = spawned \o spawn_all_trips(trips)
    /\ trips' = <<>>
    /\ pc' = "done"
    /\ UNCHANGED <<scenario, cap, rng_seed, overflow_checks, rng, parked,
                   car_id_counter, ri, bi, remaining, open_spots_per_road,
                   total_spots, new_cars, reserved_cars, warnings, pass,
                   lastSearch, lastAgent, consumed, run, prev, sim, lane_type,
                   benchmark, sim_pc, calls, primary_time, speed_state,
                   screens, last_event>>

----------------------------------------------------------------------------
(* Sim::new and the inputs *)

\* A Sim whose stream is seeded from entropy whatever rng_seed is.
SimNewRngFromEntropy(seed) == RngStates

\* Sim::new(map, rng_seed): the stream is seeded from rng_seed when there is
\* one and from entropy otherwise.
SimNewRng(seed) == IF seed = <<>> THEN RngStates ELSE {seed[1] % RngMod}

NeighborhoodGoal(n) == [kind |-> "Neighborhood", name |-> n, i |-> 0]
BorderGoal(i) == [kind |-> "Border", name |-> "", i |-> i]

Goals == {NeighborhoodGoal(n) : n \in {"n1", UndefinedName}}
         \cup {BorderGoal(i) : i \in Intersections}

\* cars_per_building: always one car; none, one or two cars alike.
OneEach == <<0, 1>>
UpToTwo == <<1, 1, 1>>

SeedRequests(names) ==
    [neighborhood : names, cars_per_building : {OneEach, UpToTwo}]

SpawnRequests(counts, names, goals, biking, transit) ==
    [num_agents : counts, start_time : {0}, stop_time : {StopTime},
     start_from_neighborhood : names, goal : goals,
     percent_biking : biking, percent_use_transit : transit]

BorderRequests(counts, goals, transit) ==
    [num_peds : counts, num_cars : counts, num_bikes : counts,
     start_time : {0}, stop_time : {StopTime},
     start_from_border : Intersections, goal : goals,
     percent_use_transit : transit]

Scenario(seeds, spawns, borders) ==
    [seed_parked_cars |-> seeds, spawn_over_time |-> spawns,
     border_spawn_over_time |-> borders]

\* The parking supplies: road 4, which no neighborhood holds, has one spot.
Supplies ==
    {c \in [Roads -> 0 .. MaxSpots] :
        c[4] = 1 /\ c[2] <= 1 /\ c[3] <= 1 /\ c[5] <= 1}

OneSpotEach == [r \in Roads |-> 1]
NoSpots == [r \in Roads |-> IF r = 4 THEN 1 ELSE 0]
SpotOnRoadOne == [r \in Roads |-> IF r \in {1, 4} THEN 1 ELSE 0]

SeededSeeds == {<<s>> : s \in RngStates}

\* One seed_parked_cars pass over every supply.
InitParking ==
    /\ scenario \in {Scenario(<<s>>, <<>>, <<>>) :
                        s \in SeedRequests({"n1", "n2"})}
    /\ cap \in Supplies
    /\ rng_seed \in SeededSeeds
    /\ overflow_checks \in BOOLEAN

\* Two seed_parked_cars requests, the names defined or not.
InitTwoPasses ==
    /\ scenario \in {Scenario(<<s1, s2>>, <<>>, <<>>) :
                        s1 \in SeedRequests({"n1", UndefinedName}),
                        s2 \in SeedRequests({"n1", "n2", UndefinedName})}
    /\ cap \in {OneSpotEach, SpotOnRoadOne}
    /\ rng_seed \in SeededSeeds
    /\ overflow_checks = TRUE

\* One SpawnOverTime request of every shape, with parked cars or without.
InitSpawn ==
    /\ scenario \in
         {Scenario(<<[neighborhood |-> "n1", cars_per_building |-> OneEach]>>,
                   <<s>>, <<>>) :
             s \in SpawnRequests({0, MaxAgents}, {"n1"}, Goals,
                                 {0, 50, 100}, {50})
                   \cup SpawnRequests({0, MaxAgents}, {UndefinedName},
                                      {BorderGoal(1)}, {50}, {50})}
    /\ cap \in {NoSpots, OneSpotEach}
    /\ rng_seed \in SeededSeeds
    /\ overflow_checks = TRUE

\* Two SpawnOverTime requests after a pass that parks cars.
InitTwoSpawns ==
    /\ scenario \in
         {Scenario(<<[neighborhood |-> "n1", cars_per_building |-> OneEach]>>,
                   <<s1, s2>>, <<>>) :
             s1, s2 \in SpawnRequests(1 .. MaxAgents, {"n1"},
                                      {NeighborhoodGoal("n1"), BorderGoal(1),
                                       BorderGoal(3)},
                                      {50}, {50})}
    /\ cap \in {SpotOnRoadOne, OneSpotEach}
    /\ rng_seed \in SeededSeeds
    /\ overflow_checks = TRUE

\* One BorderSpawnOverTime request of every shape.
InitBorder ==
    /\ scenario \in {Scenario(<<>>, <<>>, <<b>>) :
                        b \in BorderRequests(0 .. 1, Goals, {50})}
    /\ cap = OneSpotEach
    /\ rng_seed \in SeededSeeds
    /\ overflow_checks = TRUE

\* A request of each kind.
InitWhole ==
    /\ scenario \in
         {Scenario(<<s>>, <<a>>, <<b>>) :
             s \in SeedRequests({"n1"}),
             a \in SpawnRequests({0, MaxAgents}, {"n1"},
                                 {NeighborhoodGoal("n1")}, {50}, {50}),
             b \in BorderRequests({1}, {NeighborhoodGoal("n1"), BorderGoal(1)},
                                  {50})}
    /\ cap = OneSpotEach
    /\ rng_seed \in SeededSeeds
    /\ overflow_checks \in BOOLEAN

\* A Sim built without a seed.
InitEntropy ==
    /\ scenario \in
         {Scenario(<<s>>, <<a>>, <<>>) :
             s \in SeedRequests({"n1"}),
             a \in SpawnRequests({1}, {"n1"}, {NeighborhoodGoal("n1")},
                                 {50}, {50})}
    /\ cap = OneSpotEach
    /\ rng_seed = <<>>
    /\ overflow_checks = TRUE

NoPass == [requested |-> 0, no_room |-> 0, first_id |-> 0, free |-> 0]

NoAgent == [kind |-> "", ri |-> 0, bldg |-> 0, time |-> 0, reserved |-> {},
            out |-> Outcome("none", <<>>, {}, 0, FALSE, <<>>, <<>>)]

NoRun == [pc |-> "", parked |-> <<>>, trips |-> <<>>, spawned |-> <<>>,
          consumed |-> <<>>, changed |-> 0]

\* instantiate runs without a Sim of sim.rs.
NoSim ==
    /\ sim = <<>>
    /\ lane_type = <<>>
    /\ benchmark = <<>>
    /\ sim_pc = ""
    /\ calls = 0

\* No SpeedControls is at work.
NoSpeedControls ==
    /\ primary_time = 0
    /\ speed_state = ""
    /\ screens = <<>>
    /\ last_event = <<>>

\* The state in which instantiate starts on a new Sim.
Start ==
    /\ parked = <<>>
    /\ car_id_counter = 0
    /\ trips = <<>>
    /\ spawned = <<>>
    /\ pc = "seed_parked_cars"
    /\ ri = 1
    /\ bi = 1
    /\ remaining = 0
    /\ open_spots_per_road = <<>>
    /\ total_spots = 0
    /\ new_cars = 0
    /\ reserved_cars = {}
    /\ warnings = <<>>
    /\ pass = NoPass
    /\ lastSearch = NoSearch
    /\ lastAgent = NoAgent
    /\ consumed = <<>>

Init ==
    /\ \/ InitParking
       \/ InitTwoPasses
       \/ InitSpawn
       \/ InitTwoSpawns
       \/ InitBorder
       \/ InitWhole
       \/ InitEntropy
    /\ rng \in SimNewRng(rng_seed)
    /\ Start
    /\ run = 1
    /\ prev = NoRun
    /\ NoSim
    /\ NoSpeedControls

\* The scenario with one agent fewer in its k-th SpawnOverTime request
\* (k = 0: the scenario itself).
FewerAgents(sc, k) ==
    IF k = 0 THEN sc
    ELSE [sc EXCEPT !.spawn_over_time[k].num_agents = @ - 1]

\* A second run on a new Sim built from the same seed: of the same scenario,
\* or of the scenario with one agent fewer in one request.
Rerun ==
    /\ pc \in {"done", "panic"}
    /\ run = 1
    /\ \E k \in 0 .. Len(scenario.spawn_over_time) :
          /\ k > 0 => scenario.spawn_over_time[k].num_agents > 0
          /\ scenario' = FewerAgents(scenario, k)
          /\ prev' = [pc |-> pc, parked |-> parked, trips |-> trips,
                      spawned |-> spawned, consumed |-> consumed,
                      changed |-> k]
    /\ UNCHANGED <<cap, rng_seed, overflow_checks>>
    /\ run' = 2
    /\ rng' \in SimNewRng(rng_seed)
    /\ parked' = <<>>
    /\ car_id_counter' = 0
    /\ trips' = <<>>
    /\ spawned' = <<>>
    /\ pc' = "seed_parked_cars"
    /\ ri' = 1
    /\ bi' = 1
    /\ remaining' = 0
    /\ open_spots_per_road' = <<>>
    /\ total_spots' = 0
    /\ new_cars' = 0
    /\ reserved_cars' = {}
    /\ warnings' = <<>>
    /\ pass' = NoPass
    /\ lastSearch' = NoSearch
    /\ lastAgent' = NoAgent
    /\ consumed' = <<>>
    /\ UNCHANGED <<sim, lane_type, benchmark, sim_pc, calls, primary_time,
                   speed_state, screens, last_event>>

Next ==
    \/ SeedBegin
    \/ SeedBuilding
    \/ SeedCar
    \/ SeedEnd
    \/ SeedFinish
    \/ SpawnBegin
    \/ SpawnAgent
    \/ SpawnEnd
    \/ SpawnFinish
    \/ BorderBegin
    \/ BorderPed
    \/ BorderCarsBegin
    \/ BorderCar
    \/ BorderBikesBegin
    \/ BorderBike
    \/ BorderEnd
    \/ SpawnAllTrips
    \/ Rerun

Spec == Init /\ [][Next]_vars

----------------------------------------------------------------------------
(* The simulation orchestrator of sim.rs.  Sim owns the simulated time, the *)
(* random stream, the vehicle-id counter and the driving, parking and       *)
(* walking states.  Its map has three roads:                                *)
(*   road 1: lane 1 driving, lane 2 parking, lane 3 sidewalk;               *)
(*   road 2: lane 4 driving (the lane the editor retypes), lane 5 sidewalk; *)
(*   road 3: lane 6 parking, with no driving lane beside it.                *)
(* Turn 1 joins the driving lanes and turn 2 joins the sidewalks 3 and 5.   *)

\* Largest number of Sim operations in one sequence of calls.
MaxCalls == 4
\* Largest value of the vehicle-id counter.
MaxCars == 2
\* Largest number of pedestrians walking at once.
MaxPeds == 2

Lanes == 1 .. 6
Turns == {1, 2}
CarIDs == 0 .. (MaxCars - 1)

\* map.get_l(l).parent
lane_parent(l) == <<1, 1, 1, 2, 2, 3>>[l]

\* The lane types of the map before any edit.
OriginalLaneTypes ==
    <<"Driving", "Parking", "Sidewalk", "Driving", "Sidewalk", "Parking">>

\* The parking spots of one parking lane.
SpotsPerLane == 1

\* t.between_sidewalks
between_sidewalks(t) == t = 2

LanesOfType(lt, type) == SortedSeq({l \in Lanes : lt[l] = type})

\* road.find_parking_lane(id) / road.find_driving_lane(id): the lane of that
\* type on the road of lane id.
find_lane(lt, id, type) ==
    LET found == SelectSeq(LanesOfType(lt, type),
                           LAMBDA l : lane_parent(l) = lane_parent(id))
    IN IF found = <<>> THEN <<>> ELSE <<found[1]>>

\* map_model::pathfind(map, start, goal): the sidewalks 3 and 5 are joined,
\* no other sidewalk is reached.
pathfind(lt, start, goal) ==
    IF {start, goal} = {3, 5} THEN <<<<start, goal>>>> ELSE <<>>

\* Tick::zero() and Tick::increment().
Tick_zero == 0
Tick_increment(t) == t + 1

\* The stream after n draws.
RECURSIVE RngSkip(_, _)
RngSkip(s, n) == IF n <= 0 THEN s ELSE RngSkip(RngNext(s), n - 1)

\* DrivingSimState: the lanes and turns it tracks, its active cars, each
\* [id, lane, waiting_for, debug], and the time its last step was given.
DrivingSimState_new(lt) ==
    [lanes |-> {l \in Lanes : lt[l] = "Driving"},
     turns |-> {t \in Turns : ~between_sidewalks(t)},
     cars |-> {},
     stepped |-> <<>>]

\* ParkingSimState: the cars on the spots of each parking lane it tracks.
ParkingSimState_new(lt) ==
    [lanes |-> [l \in {l \in Lanes : lt[l] = "Parking"} |-> <<>>]]

\* WalkingSimState: the paths left to its pedestrians, in seeding order.
WalkingSimState_new ==
    [lanes |-> {}, turns |-> {}, peds |-> <<>>]

\* Sim::new(map, rng_seed), r being the state the stream is seeded to.
Sim_new(lt, r) ==
    [rng |-> r,
     driving_state |-> DrivingSimState_new(lt),
     parking_state |-> ParkingSimState_new(lt),
     walking_state |-> WalkingSimState_new,
     time |-> Tick_zero,
     car_id_counter |-> 0,
     debug |-> <<>>]

\* Sim::edit_lane_type(id, old_type, map), lt being the map's lane types
\* after the edit: the state of the old type forgets the lane (a parking lane
\* with its spots) and the state of the new type tracks it (a parking lane
\* with its spots free).
edit_lane_type(s, id, old_type, lt) ==
    LET removed ==
            CASE old_type = "Driving" ->
                   [s EXCEPT !.driving_state.lanes = @ \ {id}]
              [] old_type = "Parking" ->
                   [s EXCEPT !.parking_state.lanes =
                       [l \in (DOMAIN @) \ {id} |-> @[l]]]
              [] old_type = "Sidewalk" ->
                   [s EXCEPT !.walking_state.lanes = @ \ {id}]
              [] OTHER -> s
    IN CASE lt[id] = "Driving" ->
              [removed EXCEPT !.driving_state.lanes = @ \cup {id}]
         [] lt[id] = "Parking" ->
              [removed EXCEPT !.parking_state.lanes =
                  [l \in (DOMAIN @) \cup {id} |->
                      IF l \in DOMAIN @ THEN @[l] ELSE <<>>]]
         [] lt[id] = "Sidewalk" ->
              [removed EXCEPT !.walking_state.lanes = @ \cup {id}]
         [] OTHER -> removed

\* Sim::edit_remove_turn(t): the walking or the driving state forgets the turn.
edit_remove_turn(s, t) ==
    IF between_sidewalks(t)
    THEN [s EXCEPT !.walking_state.turns = @ \ {t}]
    ELSE [s EXCEPT !.driving_state.turns = @ \ {t}]

\* An edit_add_turn that makes both states track the turn.
edit_add_turn_everywhere(s, t) ==
    [s EXCEPT !.walking_state.turns = @ \cup {t},
              !.driving_state.turns = @ \cup {t}]

\* Sim::edit_add_turn(t, map): the walking or the driving state tracks the turn.
edit_add_turn(s, t) ==
    IF between_sidewalks(t)
    THEN [s EXCEPT !.walking_state.turns = @ \cup {t}]
    ELSE [s EXCEPT !.driving_state.turns = @ \cup {t}]

\* Sim::total_cars()
total_cars(s) == s.car_id_counter

\* The free spots of the tracked parking lanes, lane by lane.
RECURSIVE FreeSlots(_, _)
FreeSlots(ls, lanes) ==
    IF ls = <<>> THEN <<>>
    ELSE [k \in 1 .. (SpotsPerLane - Len(lanes[Head(ls)])) |-> Head(ls)]
         \o FreeSlots(Tail(ls), lanes)

\* ParkingSimState::seed_random_cars(rng, percent, car_id_counter): every free
\* spot gets a new car with probability percent.
RECURSIVE seed_random_cars(_, _, _, _, _)
seed_random_cars(slots, lanes, r, percent, counter) ==
    IF slots = <<>>
    THEN [lanes |-> lanes, rng |-> r, car_id_counter |-> counter]
    ELSE LET d == GenBool(r, percent)
         IN IF d.v
            THEN seed_random_cars(Tail(slots),
                                  [lanes EXCEPT ![Head(slots)] =
                                      Append(@, counter)],
                                  d.s, percent, counter + 1)
            ELSE seed_random_cars(Tail(slots), lanes, d.s, percent, counter)

\* ParkingSimState::get_last_parked_car(lane)
get_last_parked_car(ps, lane) ==
    IF lane \in DOMAIN ps.lanes /\ ps.lanes[lane] # <<>>
    THEN <<ps.lanes[lane][Len(ps.lanes[lane])]>>
    ELSE <<>>

\* A removal that leaves the car on its spot.
remove_no_parked_car(ps, lane, car) == ps

\* ParkingSimState::remove_last_parked_car(lane, car)
remove_last_parked_car(ps, lane, car) ==
    [ps EXCEPT !.lanes[lane] = SubSeq(@, 1, Len(@) - 1)]

\* DrivingSimState::start_car_on_lane(time, lane, car, map, rng): the car is
\* taken when the lane is tracked and has no car on it, and its first turn is
\* drawn from the stream.
start_car_on_lane(ds, time, lane, car, r) ==
    IF lane \in ds.lanes /\ ~\E c \in ds.cars : c.lane = lane
    THEN [v |-> TRUE,
          ds |-> [ds EXCEPT !.cars = @ \cup {[id |-> car, lane |-> lane,
                                              waiting_for |-> <<>>,
                                              debug |-> FALSE]}],
          s |-> RngNext(r)]
    ELSE [v |-> FALSE, ds |-> ds, s |-> r]

\* The loop of choose_different: it draws until the choice differs.  A stream
\* that has drawn as often as it has states without a different choice never
\* yields one, and the loop does not end (v = <<>>).
RECURSIVE ChooseUntilDifferent(_, _, _, _)
ChooseUntilDifferent(r, choices, except, draws) ==
    LET d == Choose(r, choices)
    IN IF d.v[1] # except THEN [v |-> <<d.v[1]>>, s |-> d.s]
       ELSE IF draws >= RngMod THEN [v |-> <<>>, s |-> d.s]
       ELSE ChooseUntilDifferent(d.s, choices, except, draws + 1)

\* choose_different(rng, choices, except)
choose_different(r, choices, except) ==
    ChooseUntilDifferent(r, choices, except, 1)

\* pick_goal_and_find_path(rng, map, start): a path to another lane of the
\* start's type drawn from the stream, None when there is no such lane or no
\* path to it.
pick_goal_and_find_path(r, lt, start) ==
    LET candidates == SelectSeq(LanesOfType(lt, lt[start]),
                                LAMBDA l : l # start)
        d == Choose(r, candidates)
    IN IF d.v = <<>> THEN [v |-> <<>>, s |-> d.s]
       ELSE [v |-> pathfind(lt, start, d.v[1]), s |-> d.s]

\* Sim::start_agent(map, id): [sim |-> the Sim after the call, ret |-> the
\* value returned].
start_agent(s, lt, id) ==
    LET StartCar(driving_lane, parking_lane) ==
            LET car == get_last_parked_car(s.parking_state, parking_lane)
            IN IF car = <<>> THEN [sim |-> s, ret |-> FALSE]
               ELSE LET st == start_car_on_lane(s.driving_state, s.time,
                                                driving_lane, car[1], s.rng)
                    IN [sim |-> [s EXCEPT
                                   !.driving_state = st.ds,
                                   !.rng = st.s,
                                   !.parking_state =
                                       IF st.v
                                       THEN remove_last_parked_car(
                                                @, parking_lane, car[1])
                                       ELSE @],
                        ret |-> TRUE]
    IN CASE lt[id] = "Sidewalk" ->
              LET p == pick_goal_and_find_path(s.rng, lt, id)
              IN IF p.v # <<>>
                 THEN [sim |-> [s EXCEPT !.rng = p.s,
                                         !.walking_state.peds =
                                             Append(@, p.v[1])],
                       ret |-> TRUE]
                 ELSE [sim |-> [s EXCEPT !.rng = p.s], ret |-> FALSE]
         [] lt[id] = "Driving" ->
              LET parking == find_lane(lt, id, "Parking")
              IN IF parking # <<>> THEN StartCar(id, parking[1])
                 ELSE [sim |-> s, ret |-> FALSE]
         [] lt[id] = "Parking" ->
              LET driving == find_lane(lt, id, "Driving")
              IN IF driving # <<>> THEN StartCar(driving[1], id)
                 ELSE [sim |-> s, ret |-> FALSE]
         [] OTHER -> [sim |-> s, ret |-> FALSE]

\* The loop of start_many_parked_cars over the first n empty driving lanes.
RECURSIVE StartEach(_, _, _, _)
StartEach(lanes, s, lt, actual) ==
    IF lanes = <<>> THEN [sim |-> s, actual |-> actual]
    ELSE LET a == start_agent(s, lt, Head(lanes))
         IN StartEach(Tail(lanes), a.sim, lt,
                      IF a.ret THEN actual + 1 ELSE actual)

\* Sim::start_many_parked_cars(map, num_cars): [sim, actual, n].
start_many_parked_cars(s, lt, num_cars) ==
    LET ds == s.driving_state
        \* driving_state.get_empty_lanes()
        empty == SortedSeq({l \in ds.lanes : ~\E c \in ds.cars : c.lane = l})
        driving_lanes == IF empty # <<>> THEN Shuffle(empty, s.rng) ELSE empty
        shuffled == IF empty # <<>>
                    THEN [s EXCEPT !.rng = RngSkip(@, Len(empty) - 1)]
                    ELSE s
        n == IF num_cars <= Len(driving_lanes) THEN num_cars
             ELSE Len(driving_lanes)
        out == StartEach(SubSeq(driving_lanes, 1, n), shuffled, lt, 0)
    IN [sim |-> out.sim, actual |-> out.actual, n |-> n]

\* The (start, goal) pairs seed_pedestrians draws, one after the other;
\* returns is FALSE when a choose_different loop does not end.
RECURSIVE RequestedPaths(_, _, _)
RequestedPaths(num, r, sidewalks) ==
    IF num = 0 THEN [v |-> <<>>, s |-> r, returns |-> TRUE]
    ELSE LET start == Choose(r, sidewalks)
             goal == choose_different(start.s, sidewalks, start.v[1])
             rest == RequestedPaths(num - 1, goal.s, sidewalks)
         IN IF goal.v = <<>> THEN [v |-> <<>>, s |-> goal.s, returns |-> FALSE]
            ELSE [v |-> <<<<start.v[1], goal.v[1]>>>> \o rest.v, s |-> rest.s,
                  returns |-> rest.returns]

\* The pedestrians after walking_state.seed_pedestrian on each path found,
\* in request order.
RECURSIVE SeedPaths(_, _)
SeedPaths(paths, peds) ==
    IF paths = <<>> THEN peds
    ELSE SeedPaths(Tail(paths),
                   IF Head(paths) # <<>>
                   THEN Append(peds, Head(paths)[1]) ELSE peds)

\* The orders in which n parallel path computations may finish.
Orders(n) ==
    {o \in [1 .. n -> 1 .. n] : \A i, j \in 1 .. n : o[i] = o[j] => i = j}

\* A collect that takes the paths in the order they are finished in.
CollectAsFinished(lt, requested_paths, order, slots) ==
    [k \in 1 .. Len(order) |->
        <<pathfind(lt, requested_paths[order[k]][1],
                   requested_paths[order[k]][2])>>]

\* requested_paths.par_iter().map(pathfind).collect(): the computations
\* finish in `order`, each one reads the map and its own request and fills
\* the slot of its request.
RECURSIVE Collect(_, _, _, _)
Collect(lt, requested_paths, order, slots) ==
    IF order = <<>> THEN slots
    ELSE Collect(lt, requested_paths, Tail(order),
                 [slots EXCEPT ![Head(order)] =
                     <<pathfind(lt, requested_paths[Head(order)][1],
                                requested_paths[Head(order)][2])>>])

\* Sim::seed_pedestrians(map, num), the path computations finishing in
\* `order`: [sim |-> the Sim after the call, panic |-> whether
\* choose(&sidewalks).unwrap() or choose_different's assert failed,
\* returns |-> whether the call comes back].
seed_pedestrians(s, lt, num, order) ==
    LET sidewalks == LanesOfType(lt, "Sidewalk")
        requested_paths == RequestedPaths(num, s.rng, sidewalks)
        collected == Collect(lt, requested_paths.v, order,
                             [i \in 1 .. num |-> <<>>])
        paths == [i \in 1 .. num |-> collected[i][1]]
    IN IF num > 0 /\ Len(sidewalks) <= 1
       THEN [sim |-> s, panic |-> TRUE, returns |-> TRUE]
       ELSE IF ~requested_paths.returns
       THEN [sim |-> s, panic |-> FALSE, returns |-> FALSE]
       ELSE [sim |-> [s EXCEPT !.rng = requested_paths.s,
                               !.walking_state.peds = SeedPaths(paths, @)],
             panic |-> FALSE, returns |-> TRUE]

\* DrivingSimState::step(time, map, control_map): every active car goes on,
\* waits for a turn or leaves the simulation.
DrivingStep(ds, time) ==
    {[ds EXCEPT !.cars = {[c EXCEPT !.waiting_for = w[c.id]] : c \in kept},
                !.stepped = <<time>>] :
        kept \in SUBSET ds.cars,
        w \in [CarIDs -> {<<>>, <<1>>}]}

\* WalkingSimState::step(dt, map, control_map): every pedestrian stays on its
\* lane or moves on to the next one, and leaves at the end of its path.
WalkingStep(ws) ==
    {[ws EXCEPT !.peds =
         SelectSeq([i \in 1 .. Len(ws.peds) |->
                       IF i \in moved THEN Tail(ws.peds[i]) ELSE ws.peds[i]],
                   LAMBDA p : p # <<>>)] :
        moved \in SUBSET (1 .. Len(ws.peds))}

\* A step that leaves the time alone.
step_keeping_time(s) ==
    {[s EXCEPT !.driving_state = ds, !.walking_state = ws] :
        ds \in DrivingStep(s.driving_state, s.time),
        ws \in WalkingStep(s.walking_state)}

\* A step that steps the driving state with the time before the increment.
step_with_old_time(s) ==
    {[s EXCEPT !.time = Tick_increment(s.time), !.driving_state = ds,
               !.walking_state = ws] :
        ds \in DrivingStep(s.driving_state, s.time),
        ws \in WalkingStep(s.walking_state)}

\* Sim::step(map, control_map): the Sims the call may leave.
step(s) ==
    LET time == Tick_increment(s.time)
    IN {[s EXCEPT !.time = time, !.driving_state = ds, !.walking_state = ws] :
           ds \in DrivingStep(s.driving_state, time),
           ws \in WalkingStep(s.walking_state)}

\* A get_car_state that reports every active car as moving.
get_car_state_never_stuck(s, c) ==
    IF \E d \in s.driving_state.cars : d.id = c THEN "Moving" ELSE "Parked"

\* Sim::get_car_state(c)
get_car_state(s, c) ==
    IF \E d \in s.driving_state.cars : d.id = c
    THEN LET driving == CHOOSE d \in s.driving_state.cars : d.id = c
         IN IF driving.waiting_for = <<>> THEN "Moving" ELSE "Stuck"
    ELSE "Parked"

\* Sim::summary(): the numbers it reports.
summary(s) ==
    [time |-> s.time,
     waiting |-> Cardinality({c \in s.driving_state.cars :
                                 c.waiting_for # <<>>}),
     active |-> Cardinality(s.driving_state.cars),
     parked |-> SumSeq([i \in 1 .. Len(SortedSeq(DOMAIN s.parking_state.lanes))
                          |-> Len(s.parking_state.lanes[
                                 SortedSeq(DOMAIN s.parking_state.lanes)[i]])]),
     pedestrians |-> Len(s.walking_state.peds)]

\* Whether the driving state holds car c (cars.get_mut(&c) is Some).
IsDriving(s, c) == \E d \in s.driving_state.cars : d.id = c

\* Sim::toggle_debug(car): [sim, panic], panic when an unwrap finds no car.
toggle_debug(s, car) ==
    LET SetDebug(ds, c, flag) ==
            [ds EXCEPT !.cars = {IF d.id = c THEN [d EXCEPT !.debug = flag]
                                 ELSE d : d \in @}]
        cleared == IF s.debug # <<>> /\ s.debug[1] # car
                   THEN SetDebug(s.driving_state, s.debug[1], FALSE)
                   ELSE s.driving_state
        c == CHOOSE d \in cleared.cars : d.id = car
    IN IF \/ (s.debug # <<>> /\ s.debug[1] # car /\ ~IsDriving(s, s.debug[1]))
          \/ ~IsDriving(s, car)
       THEN [sim |-> s, panic |-> TRUE]
       ELSE [sim |-> [s EXCEPT !.driving_state = SetDebug(cleared, car, ~c.debug),
                               !.debug = <<car>>],
             panic |-> FALSE]

(* The operations of a Sim as actions. *)

\* The Sim takes one more call.
Called ==
    /\ sim_pc = "idle"
    /\ calls < MaxCalls
    /\ calls' = calls + 1

Sim_edit_lane_type ==
    /\ Called
    /\ \E id \in {4}, type \in {"Driving", "Parking", "Sidewalk", "Biking"} :
          /\ type # lane_type[id]
          /\ lane_type' = [lane_type EXCEPT ![id] = type]
          /\ sim' = edit_lane_type(sim, id, lane_type[id], lane_type')
    /\ UNCHANGED <<benchmark, sim_pc>>
    /\ UNCHANGED <<instantiate_vars, speed_vars>>

Sim_edit_remove_turn ==
    /\ Called
    /\ \E t \in Turns : sim' = edit_remove_turn(sim, t)
    /\ UNCHANGED <<lane_type, benchmark, sim_pc>>
    /\ UNCHANGED <<instantiate_vars, speed_vars>>

Sim_edit_add_turn ==
    /\ Called
    /\ \E t \in Turns : sim' = edit_add_turn(sim, t)
    /\ UNCHANGED <<lane_type, benchmark, sim_pc>>
    /\ UNCHANGED <<instantiate_vars, speed_vars>>

Sim_seed_parked_cars ==
    /\ Called
    /\ \E percent \in {50, 100} :
          LET lanes == sim.parking_state.lanes
              out == seed_random_cars(
                         FreeSlots(SortedSeq(DOMAIN lanes), lanes),
                         lanes, sim.rng, percent, sim.car_id_counter)
          IN /\ out.car_id_counter <= MaxCars
             /\ sim' = [sim EXCEPT !.parking_state.lanes = out.lanes,
                                   !.rng = out.rng,
                                   !.car_id_counter = out.car_id_counter]
    /\ UNCHANGED <<lane_type, benchmark, sim_pc>>
    /\ UNCHANGED <<instantiate_vars, speed_vars>>

Sim_start_many_parked_cars ==
    /\ Called
    /\ \E num_cars \in 0 .. MaxCars :
          sim' = start_many_parked_cars(sim, lane_type, num_cars).sim
    /\ UNCHANGED <<lane_type, benchmark, sim_pc>>
    /\ UNCHANGED <<instantiate_vars, speed_vars>>

Sim_start_agent ==
    /\ Called
    /\ \E id \in Lanes :
          /\ Len(start_agent(sim, lane_type, id).sim.walking_state.peds)
                <= MaxPeds
          /\ sim' = start_agent(sim, lane_type, id).sim
    /\ UNCHANGED <<lane_type, benchmark, sim_pc>>
    /\ UNCHANGED <<instantiate_vars, speed_vars>>

Sim_seed_pedestrians ==
    /\ Called
    /\ \E num \in 0 .. (MaxPeds - Len(sim.walking_state.peds)) :
       \E order \in Orders(num) :
          LET out == seed_pedestrians(sim, lane_type, num, order)
          IN /\ out.returns
             /\ sim' = out.sim
             /\ sim_pc' = IF out.panic THEN "panic" ELSE sim_pc
    /\ UNCHANGED <<lane_type, benchmark>>
    /\ UNCHANGED <<instantiate_vars, speed_vars>>

Sim_step ==
    /\ Called
    /\ sim' \in step(sim)
    /\ UNCHANGED <<lane_type, benchmark, sim_pc>>
    /\ UNCHANGED <<instantiate_vars, speed_vars>>

\* total_cars, get_car_state, the get_draw_* queries, summary and the
\* tooltips take &self: they read the Sim and leave it as it is.
Sim_query ==
    /\ Called
    /\ total_cars(sim) \in 0 .. MaxCars
    /\ \A c \in CarIDs : get_car_state(sim, c) \in {"Moving", "Stuck", "Parked"}
    /\ summary(sim).time = sim.time
    /\ UNCHANGED <<sim, lane_type, benchmark, sim_pc>>
    /\ UNCHANGED <<instantiate_vars, speed_vars>>

Sim_toggle_debug ==
    /\ Called
    /\ \E car \in CarIDs :
          /\ sim' = toggle_debug(sim, car).sim
          /\ sim_pc' = IF toggle_debug(sim, car).panic THEN "panic" ELSE sim_pc
    /\ UNCHANGED <<lane_type, benchmark>>
    /\ UNCHANGED <<instantiate_vars, speed_vars>>

Sim_start_benchmark ==
    /\ Called
    /\ benchmark' = <<[last_sim_time |-> sim.time]>>
    /\ UNCHANGED <<sim, lane_type, sim_pc>>
    /\ UNCHANGED <<instantiate_vars, speed_vars>>

\* measure_speed(b) reports the simulated time passed since the benchmark's
\* mark and moves the mark to the present.
Sim_measure_speed ==
    /\ Called
    /\ benchmark # <<>>
    /\ benchmark' = <<[benchmark[1] EXCEPT !.last_sim_time = sim.time]>>
    /\ UNCHANGED <<sim, lane_type, sim_pc>>
    /\ UNCHANGED <<instantiate_vars, speed_vars>>

\* A Sim built on the unedited map from a seed.
SimInit ==
    /\ scenario = Scenario(<<>>, <<>>, <<>>)
    /\ cap = NoSpots
    /\ rng_seed \in {<<1>>, <<2>>}
    /\ overflow_checks = TRUE
    /\ rng \in SimNewRng(rng_seed)
    /\ Start
    /\ run = 1
    /\ prev = NoRun
    /\ lane_type = OriginalLaneTypes
    /\ sim = Sim_new(lane_type, rng)
    /\ benchmark = <<>>
    /\ sim_pc = "idle"
    /\ calls = 0
    /\ NoSpeedControls

SimNext ==
    \/ Sim_edit_lane_type
    \/ Sim_edit_remove_turn
    \/ Sim_edit_add_turn
    \/ Sim_seed_parked_cars
    \/ Sim_start_many_parked_cars
    \/ Sim_start_agent
    \/ Sim_seed_pedestrians
    \/ Sim_step
    \/ Sim_query
    \/ Sim_toggle_debug
    \/ Sim_start_benchmark
    \/ Sim_measure_speed

SimSpec == SimInit /\ [][SimNext]_vars

----------------------------------------------------------------------------
(* Properties of the parking allocator *)

\* A seed_parked_cars pass is in progress / has handled its last building.
InPass == pc \in {"seed_building", "seed_car"}
PassOver == pc = "seed_building" /\ bi > Len(owner_buildings)

\* The vehicles the pass in progress has placed with sim.seed_parked_car.
Placed == Len(parked) - pass.first_id

\* C1: when a seed_parked_cars pass has handled its last building, the
\* vehicles placed plus the "No room" warnings equal the vehicles requested
\* (the sum of the sampled per-building counts); during the pass the vehicles
\* placed, which new_cars counts, never exceed the spots that were free on the
\* neighborhood's roads when the pass started, which total_spots counts.
C1_Conservation ==
    /\ InPass => /\ Placed <= pass.free
                 /\ Placed = new_cars
                 /\ total_spots = pass.free
    /\ PassOver => Placed + pass.no_room = pass.requested

\* A pass is over that used up every free spot and then had to warn.
C1_Witness ==
    /\ PassOver
    /\ Placed > 0
    /\ Placed = pass.free
    /\ pass.no_room > 0

StackSpots == UNION {{open_spots_per_road[r][k] :
                         k \in 1 .. Len(open_spots_per_road[r])} :
                     r \in DOMAIN open_spots_per_road}

\* C2: no two seeded vehicles are bound to the same parking spot; a spot that
\* find_spot_near_building returned is on no stack afterwards (the stacks of a
\* pass hold only free spots, each once); and the vehicle seeded for a found
\* spot is bound to that spot and to the building the search was for.
C2_SpotHandedOutOnce ==
    /\ \A i, j \in 1 .. Len(parked) :
          i # j => parked[i].spot # parked[j].spot
    /\ InPass =>
          /\ \A sp \in StackSpots : ~IsOccupied(sp)
          /\ \A r \in DOMAIN open_spots_per_road :
                \A k, l \in 1 .. Len(open_spots_per_road[r]) :
                   k # l => open_spots_per_road[r][k] # open_spots_per_road[r][l]
    /\ (lastSearch.result # <<>> /\ lastSearch.result[1].spot # <<>>) =>
          /\ parked # <<>>
          /\ parked[Len(parked)].spot = lastSearch.result[1].spot[1]
          /\ parked[Len(parked)].owner = <<lastSearch.b>>

\* A second pass places a vehicle after a first pass placed some, with spots
\* still on the stacks.
C2_Witness ==
    /\ InPass
    /\ pass.first_id > 0
    /\ Placed > 0
    /\ StackSpots # {}

----------------------------------------------------------------------------
(* Properties of the spawning loops *)

\* The trips scheduled in this run, queued or already handed to the Sim.
Scheduled == trips \o spawned

\* The parked vehicle a UsingParkedCar trip refers to: the one on its spot.
CarOfTrip(t) ==
    {parked[k].id : k \in {i \in 1 .. Len(parked) :
                              parked[i].spot = t.spec.spot[1]}}

DrivesParkedCar(t) == t.spec.kind = "UsingParkedCar"

\* C3: no two UsingParkedCar trips scheduled in one run of instantiate, by the
\* same SpawnOverTime request or by different ones, refer to the same parked
\* vehicle; each refers to exactly one vehicle, which is reserved.
C3_NoDoubleReservation ==
    \A i, j \in 1 .. Len(Scheduled) :
       (DrivesParkedCar(Scheduled[i]) /\ DrivesParkedCar(Scheduled[j]) /\ i # j)
       => /\ Scheduled[i].spec.spot # Scheduled[j].spec.spot
          /\ CarOfTrip(Scheduled[i]) \cap CarOfTrip(Scheduled[j]) = {}
          /\ Cardinality(CarOfTrip(Scheduled[i])) = 1
          /\ pc # "done" => CarOfTrip(Scheduled[i]) \subseteq reserved_cars

\* Two requests each scheduled a UsingParkedCar trip, and an agent of a
\* building whose only car was taken got a trip of another mode.
C3_Witness ==
    /\ \E i, j \in 1 .. Len(trips) :
          /\ DrivesParkedCar(trips[i]) /\ DrivesParkedCar(trips[j])
          /\ trips[i].by # trips[j].by
    /\ \E i, j \in 1 .. Len(trips) :
          /\ i < j
          /\ DrivesParkedCar(trips[i]) /\ ~DrivesParkedCar(trips[j])
          /\ trips[j].spec.start = trips[i].spec.start
          /\ Len(get_parked_cars_by_owner(trips[i].spec.start[1].id)) = 1

----------------------------------------------------------------------------
(* Properties of find_spot_near_building, on the last search made *)

Searched == lastSearch.result # <<>>
OwnRoad == building_to_road(lastSearch.b)
Found == lastSearch.result[1]

\* The building's own road has a stack, and a spot on it.
OwnRoadHasSpot ==
    /\ OwnRoad \in DOMAIN lastSearch.before
    /\ lastSearch.before[OwnRoad] # <<>>

NoRepeats(seq) == \A i, j \in 1 .. Len(seq) : i # j => seq[i] # seq[j]

\* C4: when the stack of the building's own road holds a spot at the start of
\* a search, find_spot_near_building returns the spot on top of that stack,
\* which is a spot of that road, takes it off that stack, leaves every other
\* road's stack as it was, and looks at no other road.
C4_ParkingLocality ==
    (Searched /\ OwnRoadHasSpot) =>
       /\ Found.spot = <<lastSearch.before[OwnRoad]
                              [Len(lastSearch.before[OwnRoad])]>>
       /\ Found.spot[1][1] = OwnRoad
       /\ Found.stacks[OwnRoad] =
             SubSeq(lastSearch.before[OwnRoad], 1,
                    Len(lastSearch.before[OwnRoad]) - 1)
       /\ \A r \in DOMAIN lastSearch.before \ {OwnRoad} :
             Found.stacks[r] = lastSearch.before[r]
       /\ Found.popped = <<OwnRoad>>
       /\ Found.enqueued = <<OwnRoad>>
       /\ ~Found.gave_up

\* A search took the spot of the building's own road while another road of
\* the neighborhood had a spot too.
C4_Witness ==
    /\ Searched /\ OwnRoadHasSpot
    /\ \E r \in DOMAIN lastSearch.before \ {OwnRoad} :
          lastSearch.before[r] # <<>>
    /\ parked[Len(parked)].spot[1] = OwnRoad

\* C5 as stated: every road the search enqueues or takes from the queue is in
\* neighborhoods_roads, and no road is enqueued or taken twice.
C5_SearchWithinRoadSet ==
    Searched =>
       /\ \A k \in 1 .. Len(Found.enqueued) :
             Found.enqueued[k] \in lastSearch.roads
       /\ \A k \in 1 .. Len(Found.popped) :
             Found.popped[k] \in lastSearch.roads
       /\ NoRepeats(Found.enqueued)
       /\ NoRepeats(Found.popped)

\* C5, amended: the first road enqueued is the building's own road, in the set
\* or not; every other road the search enqueues or takes from the queue is in
\* neighborhoods_roads; no road is enqueued or taken twice; the roads taken
\* are a prefix of the roads enqueued (breadth first); and a spot returned is
\* a spot of a road of the set.
C5_SearchWithinRoadSetButStart ==
    Searched =>
       /\ Found.enqueued[1] = OwnRoad
       /\ \A k \in 2 .. Len(Found.enqueued) :
             Found.enqueued[k] \in lastSearch.roads
       /\ \A k \in 1 .. Len(Found.popped) :
             Found.popped[k] \in lastSearch.roads \cup {OwnRoad}
       /\ NoRepeats(Found.enqueued)
       /\ NoRepeats(Found.popped)
       /\ Found.popped = SubSeq(Found.enqueued, 1, Len(Found.popped))
       /\ Found.spot # <<>> => Found.spot[1][1] \in lastSearch.roads
       /\ Found.gave_up => Found.popped = Found.enqueued

\* A search that started on a road outside the set went on to roads of the
\* set and found a spot there.
C5_Witness ==
    /\ Searched
    /\ OwnRoad \notin lastSearch.roads
    /\ Len(Found.popped) > 1
    /\ Found.spot # <<>>

----------------------------------------------------------------------------
(* Properties of two runs *)

Finished == pc \in {"done", "panic"}

\* The second run, of the same scenario on a Sim built from the same seed,
\* has ended.
SameRunTwice == run = 2 /\ prev.changed = 0 /\ rng_seed # <<>> /\ Finished

DrawsOf(log, kind, r) ==
    SelectSeq(log, LAMBDA d : d[1] = kind /\ d[2] = r)

\* The requests of a kind in the scenario.
RequestsOf(kind) ==
    IF kind = "seed" THEN DOMAIN scenario.seed_parked_cars
    ELSE IF kind = "spawn" THEN DOMAIN scenario.spawn_over_time
    ELSE DOMAIN scenario.border_spawn_over_time

\* The sampling decisions: all draws but the forks themselves and the counts
\* of cars per building.
IsDecision(d) ==
    d[3] \in {"time", "origin", "goal", "length", "roll_bike", "roll_transit"}

\* Every sampling decision made so far drew from a forked stream.
EveryDecisionForked ==
    \A k \in 1 .. Len(consumed) :
       IsDecision(consumed[k]) => consumed[k][4] = "fork"

\* The second run, of the scenario with one agent fewer in one SpawnOverTime
\* request, completed as the first did: every other request drew the values it
\* drew in the first run.
OthersUndisturbed ==
    (run = 2 /\ prev.changed > 0 /\ rng_seed # <<>>
       /\ pc = "done" /\ prev.pc = "done") =>
       \A kind \in {"seed", "spawn", "border"} :
          \A r \in RequestsOf(kind) :
             <<kind, r>> # <<"spawn", prev.changed>> =>
                DrawsOf(consumed, kind, r) = DrawsOf(prev.consumed, kind, r)

\* C7: every sampling decision of instantiate (spawn time, origin building,
\* goal, vehicle length, mode roll) draws from a forked stream and not from the
\* base stream, so that a change of the number of agents of one request leaves
\* the values every other request draws as they were.
C7_ForkedStreams == EveryDecisionForked /\ OthersUndisturbed

----------------------------------------------------------------------------
(* Properties of the mode choice, on the last agent handled *)

SpawnedAgent == lastAgent.kind = "spawn" /\ lastAgent.bldg # 0

\* The parked cars that the agent's origin building owned and that were not
\* reserved when the agent was handled.
UnreservedCars ==
    {parked[k] : k \in {i \in 1 .. Len(parked) :
                           /\ parked[i].owner = <<lastAgent.bldg>>
                           /\ parked[i].id \notin lastAgent.reserved}}

\* The cars that the scheduled UsingParkedCar trips refer to.
CarsOfScheduledTrips ==
    UNION {CarOfTrip(Scheduled[k]) :
              k \in {i \in 1 .. Len(Scheduled) : DrivesParkedCar(Scheduled[i])}}

\* C8: an agent whose origin building owns a parked car not yet reserved is
\* handled by the car rule only: the one trip it can get is a UsingParkedCar
\* trip from that building for such a car, never a trip of another kind; the
\* car is reserved exactly when that trip is scheduled (with an unresolved
\* driving goal there is no trip and the reserved set is as before); and the
\* reserved cars are at all times the cars of the scheduled UsingParkedCar
\* trips.
C8_FirstMatch ==
    /\ reserved_cars = CarsOfScheduledTrips
    /\ SpawnedAgent =>
          /\ reserved_cars = lastAgent.reserved \cup lastAgent.out.reserve
          /\ UnreservedCars # {} =>
                /\ lastAgent.out.rule = "car"
                /\ \A k \in 1 .. Len(lastAgent.out.specs) :
                      /\ DrivesParkedCar([spec |-> lastAgent.out.specs[k]])
                      /\ lastAgent.out.specs[k].start =
                            <<SidewalkSpot_building(lastAgent.bldg)>>
                      /\ \E p \in UnreservedCars :
                            /\ lastAgent.out.specs[k].spot = <<p.spot>>
                            /\ lastAgent.out.reserve = {p.id}
                /\ lastAgent.out.specs = <<>> => lastAgent.out.reserve = {}
          /\ UnreservedCars = {} =>
                /\ lastAgent.out.rule # "car"
                /\ lastAgent.out.reserve = {}
                /\ \A k \in 1 .. Len(lastAgent.out.specs) :
                      ~DrivesParkedCar([spec |-> lastAgent.out.specs[k]])

\* After the car of another building was reserved, an agent of a building
\* with an unreserved car found no driving goal: no trip, no reservation.
C8_Witness ==
    /\ SpawnedAgent
    /\ UnreservedCars # {}
    /\ lastAgent.reserved # {}
    /\ lastAgent.out.specs = <<>>
    /\ ~lastAgent.out.panic
    /\ reserved_cars = lastAgent.reserved

\* The trials a SpawnOverTime request has made (each starts by drawing the
\* spawn time) and the trips it has scheduled.
Trials(r) ==
    Len(SelectSeq(consumed, LAMBDA d : d[1] = "spawn" /\ d[2] = r
                                          /\ d[3] = "time"))

TripsBy(r) == Len(SelectSeq(Scheduled, LAMBDA t : t.by = <<"spawn", r>>))

\* The loop over the agents of the r-th SpawnOverTime request has ended.
RequestOver(r) ==
    \/ pc \in {"border_spawn", "border_peds", "border_cars", "border_bikes",
               "done"}
    \/ pc = "spawn_over_time" /\ ri > r
    \/ pc = "spawn_agent" /\ (ri > r \/ (ri = r /\ remaining = 0))

DrawsOfKind(draws, what) == Len(SelectSeq(draws, LAMBDA d : d[1] = what))

\* C9: a trial of a SpawnOverTime request schedules at most one trip; a trial
\* whose goal is unresolved schedules none and resolves no second goal; an
\* agent with an unreserved car never rolls for biking, and one whose biking
\* roll succeeded never rolls for transit nor gets a trip other than by bike;
\* a request never makes more trials than num_agents,
\* makes exactly num_agents when its loop ends, and never schedules more trips
\* than it made trials.
C9_SkipNeverRetry ==
    /\ lastAgent.kind = "spawn" =>
          /\ Len(lastAgent.out.specs) <= 1
          /\ DrawsOfKind(lastAgent.out.draws, "time") = 1
          /\ DrawsOfKind(lastAgent.out.draws, "origin") <= 1
          /\ DrawsOfKind(lastAgent.out.draws, "goal") <= 1
          /\ lastAgent.out.warn # <<>> =>
                /\ lastAgent.out.specs = <<>>
                /\ Len(lastAgent.out.warn) = 1
                /\ lastAgent.out.reserve = {}
                /\ DrawsOfKind(lastAgent.out.draws, "roll_transit") = 0
                /\ DrawsOfKind(lastAgent.out.draws, "length") = 0
          /\ UnreservedCars # {} =>
                DrawsOfKind(lastAgent.out.draws, "roll_bike") = 0
          /\ \A k \in 1 .. Len(lastAgent.out.draws) :
                (/\ lastAgent.out.draws[k][1] = "roll_bike"
                 /\ GenBool(lastAgent.out.draws[k][3],
                            scenario.spawn_over_time[lastAgent.ri]
                               .percent_biking).v)
                => /\ DrawsOfKind(lastAgent.out.draws, "roll_transit") = 0
                   /\ \A j \in 1 .. Len(lastAgent.out.specs) :
                         lastAgent.out.specs[j].kind = "UsingBike"
    /\ \A r \in 1 .. Len(scenario.spawn_over_time) :
          /\ TripsBy(r) <= Trials(r)
          /\ Trials(r) <= scenario.spawn_over_time[r].num_agents
          /\ RequestOver(r) =>
                Trials(r) = scenario.spawn_over_time[r].num_agents

\* A request of two agents has ended with one trip: one trial found no goal
\* and was not made again.
C9_Witness ==
    \E r \in 1 .. Len(scenario.spawn_over_time) :
       /\ RequestOver(r)
       /\ scenario.spawn_over_time[r].num_agents = MaxAgents
       /\ Trials(r) = MaxAgents
       /\ TripsBy(r) = 1
       /\ \E k \in 1 .. Len(warnings) : warnings[k][1] # "Seeded"
                                          /\ warnings[k][1] # "No room"
                                          /\ warnings[k][1] # "Giving up"

\* The last agent handled reached the walking rule and its walking goal was
\* resolved.
WalkingAgent ==
    /\ lastAgent.kind \in {"spawn", "border"}
    /\ lastAgent.out.rule = "walk"
    /\ lastAgent.out.warn = <<>>
    /\ ~lastAgent.out.panic

\* The request of the last agent, its start spot, its transit roll as drawn,
\* and the route the map has for its trip.
AgentRequest ==
    IF lastAgent.kind = "spawn" THEN scenario.spawn_over_time[lastAgent.ri]
    ELSE scenario.border_spawn_over_time[lastAgent.ri]

AgentStart ==
    IF lastAgent.kind = "spawn" THEN SidewalkSpot_building(lastAgent.bldg)
    ELSE SidewalkSpot_start_at_border(AgentRequest.start_from_border)[1]

TransitRolls ==
    SelectSeq(lastAgent.out.draws, LAMBDA d : d[1] = "roll_transit")

TransitRoll == GenBool(TransitRolls[1][3], AgentRequest.percent_use_transit).v

AgentRoute ==
    should_use_transit(AgentStart.sidewalk,
                       lastAgent.out.specs[1].wgoal[1].sidewalk)

\* C10: an agent that reaches the walking rule with a resolved walking goal,
\* from a building or from a border, gets exactly one trip, from its start
\* spot to that goal, scheduled at its spawn time: a UsingTransit trip with
\* the route and the stops of the transit query if and only if the transit
\* roll succeeded and the query returned a route, and a JustWalking trip
\* otherwise; it is never left without a trip.
C10_WalkOrTransit ==
    WalkingAgent =>
       /\ Len(lastAgent.out.specs) = 1
       /\ Len(TransitRolls) = 1
       /\ lastAgent.out.specs[1].start = <<AgentStart>>
       /\ Len(lastAgent.out.specs[1].wgoal) = 1
       /\ lastAgent.out.specs[1].kind =
             IF TransitRoll /\ AgentRoute # <<>> THEN "UsingTransit"
             ELSE "JustWalking"
       /\ lastAgent.out.specs[1].transit =
             IF TransitRoll /\ AgentRoute # <<>>
             THEN <<[route |-> AgentRoute[1].route,
                     stop1 |-> AgentRoute[1].stop1,
                     stop2 |-> AgentRoute[1].stop2]>>
             ELSE <<>>
       /\ \E k \in 1 .. Len(Scheduled) :
             Scheduled[k] = [time |-> lastAgent.time,
                             spec |-> lastAgent.out.specs[1],
                             by |-> <<lastAgent.kind, lastAgent.ri>>]

\* The transit roll of a pedestrian from a border succeeded and the map had
\* no route: the pedestrian walks.
C10_Witness ==
    /\ WalkingAgent
    /\ lastAgent.kind = "border"
    /\ TransitRoll
    /\ AgentRoute = <<>>
    /\ lastAgent.out.specs[1].kind = "JustWalking"

----------------------------------------------------------------------------
(* Properties of the biking rule, on the last agent handled *)

BikeRolls == SelectSeq(lastAgent.out.draws, LAMBDA d : d[1] = "roll_bike")

\* The last agent handled was a SpawnOverTime agent that took the biking
\* rule: its building had no unreserved car and its biking roll succeeded.
BikingAgent ==
    /\ SpawnedAgent
    /\ UnreservedCars = {}
    /\ Len(BikeRolls) = 1
    /\ GenBool(BikeRolls[1][3], AgentRequest.percent_biking).v

\* The biking goal the agent resolved, from the stream as the roll left it.
BikingGoal == pick_biking_goal(AgentRequest.goal, RngNext(BikeRolls[1][3]))

\* The resolved goal is a building on the sidewalk of the origin building.
SameSidewalk ==
    /\ BikingGoal.v # <<>>
    /\ BikingGoal.v[1].kind = "ParkNear"
    /\ BuildingSidewalk(BikingGoal.v[1].id) = BuildingSidewalk(lastAgent.bldg)

\* C11: a SpawnOverTime agent that takes the biking rule gets a UsingBike
\* trip, from its building to the resolved goal, if and only if the biking
\* goal resolved and the goal is not a building on the sidewalk of the origin
\* building; when the sidewalks coincide the agent gets no trip of any mode,
\* makes no transit roll and draws no bike.
C11_NoDegenerateBikeTrip ==
    BikingAgent =>
       /\ lastAgent.out.specs # <<>> <=> (BikingGoal.v # <<>> /\ ~SameSidewalk)
       /\ \A k \in 1 .. Len(lastAgent.out.specs) :
             /\ lastAgent.out.specs[k].kind = "UsingBike"
             /\ lastAgent.out.specs[k].start =
                   <<SidewalkSpot_building(lastAgent.bldg)>>
             /\ lastAgent.out.specs[k].dgoal = BikingGoal.v
             /\ lastAgent.out.specs[k].dgoal[1].kind = "ParkNear" =>
                   BuildingSidewalk(lastAgent.out.specs[k].dgoal[1].id)
                      # BuildingSidewalk(lastAgent.bldg)
       /\ SameSidewalk =>
             /\ lastAgent.out.specs = <<>>
             /\ DrawsOfKind(lastAgent.out.draws, "roll_transit") = 0
             /\ DrawsOfKind(lastAgent.out.draws, "length") = 0
             /\ TripsBy(lastAgent.ri) < Trials(lastAgent.ri)

\* A biking agent whose goal is another building on the sidewalk of its own
\* building was skipped.
C11_Witness ==
    /\ BikingAgent
    /\ SameSidewalk
    /\ BikingGoal.v[1].id # lastAgent.bldg
    /\ lastAgent.out.specs = <<>>

----------------------------------------------------------------------------
(* Properties of the fatal errors *)

\* The step in which the check of a request's neighborhood name fails.
NameCheckFails ==
    /\ pc \in {"seed_parked_cars", "spawn_over_time"}
    /\ pc' = "panic"

\* C12: when the neighborhood named by a SeedParkedCars or a SpawnOverTime
\* request is not defined, instantiate aborts with nothing of the scenario
\* executed: no vehicle has been seeded, no trip scheduled and no trip
\* realized, wherever the request stands in the scenario.
C12_NoPartialScenario ==
    [][NameCheckFails =>
          /\ parked' = <<>>
          /\ trips' = <<>>
          /\ spawned' = <<>>]_vars

\* The neighborhood names a list of requests refers to in its goals.
GoalNames(requests) ==
    {requests[k].goal.name :
        k \in {i \in DOMAIN requests : requests[i].goal.kind = "Neighborhood"}}

\* The neighborhood names the scenario refers to.
ReferencedNames ==
    {scenario.seed_parked_cars[k].neighborhood :
        k \in DOMAIN scenario.seed_parked_cars}
    \cup {scenario.spawn_over_time[k].start_from_neighborhood :
             k \in DOMAIN scenario.spawn_over_time}
    \cup GoalNames(scenario.spawn_over_time)
    \cup GoalNames(scenario.border_spawn_over_time)

\* C13: instantiate completes normally only for a scenario all of whose
\* neighborhood names, those of the goals included and whatever the numbers
\* of agents, are defined.
C13_UndefinedNameIsFatal ==
    pc = "done" => ReferencedNames \subseteq DOMAIN Neighborhoods

----------------------------------------------------------------------------
(* Properties of the order of instantiate *)

SeedPhase == pc \in {"seed_parked_cars", "seed_building", "seed_car"}
SpawnPhase == pc \in {"spawn_over_time", "spawn_agent"}
BorderPhase ==
    pc \in {"border_spawn", "border_peds", "border_cars", "border_bikes"}

\* The draws made so far for requests of a kind.
DrawsFor(kind) == SelectSeq(consumed, LAMBDA d : d[1] = kind)

\* The seed_parked_cars passes that have ended.
PassesOver == Len(SelectSeq(warnings, LAMBDA w : w[1] = "Seeded"))

\* The place of a request in the order of instantiate.
Before(by1, by2) ==
    \/ by1[1] = "spawn" /\ by2[1] = "border"
    \/ by1[1] = by2[1] /\ by1[2] <= by2[2]

\* The queue holds the trips in the order of the requests.
QueueInRequestOrder ==
    \A i, j \in 1 .. Len(trips) : i < j => Before(trips[i].by, trips[j].by)

OrderOfInstantiate ==
    /\ pc # "done" => spawned = <<>>
    /\ pc = "done" => trips = <<>>
    /\ QueueInRequestOrder
    /\ SeedPhase => /\ trips = <<>>
                    /\ DrawsFor("spawn") = <<>>
                    /\ DrawsFor("border") = <<>>
    /\ SpawnPhase => /\ PassesOver = Len(scenario.seed_parked_cars)
                     /\ DrawsFor("border") = <<>>
                     /\ \A k \in 1 .. Len(trips) : trips[k].by[1] = "spawn"
    /\ (BorderPhase \/ pc = "done") =>
          /\ PassesOver = Len(scenario.seed_parked_cars)
          /\ \A r \in DOMAIN scenario.spawn_over_time :
                Trials(r) = scenario.spawn_over_time[r].num_agents

\* What a step of one run may do to the queue and to the realized trips.
CommitOnce ==
    run' = run =>
       /\ trips' # trips =>
             \/ /\ spawned' = spawned
                /\ Len(trips') = Len(trips) + 1
                /\ SubSeq(trips', 1, Len(trips)) = trips
             \/ /\ trips' = <<>>
                /\ pc' = "done"
       /\ spawned' # spawned =>
             /\ spawned = <<>>
             /\ pc = "border_spawn"
             /\ ri > Len(scenario.border_spawn_over_time)
             /\ pc' = "done"
             /\ Len(spawned') = Len(trips)
             /\ \A k \in 1 .. Len(trips) :
                   \E j \in 1 .. Len(spawned') : spawned'[j] = trips[k]
       /\ ~SeedPhase => parked' = parked
       /\ pc = "done" => pc' = "done" /\ spawned' = spawned /\ trips' = trips
       /\ (pc # "done" /\ pc' = "done") => spawned' = spawn_all_trips(trips)

\* C14: the seed_parked_cars requests are all processed before the first
\* SpawnOverTime agent and the SpawnOverTime requests before the first
\* BorderSpawnOverTime request; a schedule_trip call appends one trip to the
\* queue and realizes none; the queue is realized once, by spawn_all_trips,
\* in the step that ends instantiate, after which nothing is scheduled; no
\* trip is realized before then.
C14_OrderAndCommit == []OrderOfInstantiate /\ [][CommitOnce]_vars

\* instantiate has ended with parked cars and with realized trips of
\* SpawnOverTime and of BorderSpawnOverTime requests.
C14_Witness ==
    /\ pc = "done"
    /\ parked # <<>>
    /\ \E i, j \in 1 .. Len(spawned) :
          spawned[i].by[1] = "spawn" /\ spawned[j].by[1] = "border"

----------------------------------------------------------------------------
(* Properties of the BorderSpawnOverTime requests *)

Submodes == {"peds", "cars", "bikes"}

\* instantiate stands between two BorderSpawnOverTime requests or has ended;
\* the requests it has processed.
BetweenBorders == pc \in {"border_spawn", "done"}

ProcessedBorders ==
    IF pc = "done" THEN DOMAIN scenario.border_spawn_over_time
    ELSE 1 .. (ri - 1)

\* The border i lacks the sidewalk or the lanes the submode needs.
Lacks(mode, i) ==
    IF mode = "peds" THEN SidewalkSpot_start_at_border(i) = <<>>
    ELSE IF mode = "cars" THEN get_outgoing_lanes(i, "Driving") = <<>>
    ELSE get_outgoing_lanes(i, "Biking")
            \o SelectSeq(get_outgoing_lanes(i, "Driving"),
                         LAMBDA l : supports_bikes(l)) = <<>>

\* The first outgoing driving lane of border i is too short for the cars.
TooShort(i) ==
    /\ get_outgoing_lanes(i, "Driving") # <<>>
    /\ LaneLength(get_outgoing_lanes(i, "Driving")[1]) < MAX_CAR_LENGTH

Requested(mode, req) ==
    IF mode = "peds" THEN req.num_peds
    ELSE IF mode = "cars" THEN req.num_cars ELSE req.num_bikes

\* The goal of a request resolves for the submode (no draw decides it).
GoalResolves(mode, goal) ==
    IF mode = "peds" THEN pick_walking_goal(goal, 0).v # <<>>
    ELSE IF mode = "cars" THEN pick_driving_goal(goal, 0).v # <<>>
    ELSE pick_biking_goal(goal, 0).v # <<>>

SubmodeOfTrip(t) ==
    IF t.spec.kind \in {"JustWalking", "UsingTransit"} THEN "peds"
    ELSE IF t.spec.pos[1][2] = 0 THEN "cars" ELSE "bikes"

\* The trips the r-th BorderSpawnOverTime request scheduled for a submode.
SubmodeTrips(mode, r) ==
    Len(SelectSeq(Scheduled, LAMBDA t : /\ t.by = <<"border", r>>
                                         /\ SubmodeOfTrip(t) = mode))

MissingWarning(mode) ==
    IF mode = "peds" THEN "Can't start_at_border"
    ELSE IF mode = "cars" THEN "Can't start car at border"
    ELSE "Can't start bike at border"

MissingWarnings(mode, i) ==
    Len(SelectSeq(warnings, LAMBDA w : w = <<MissingWarning(mode), i>>))

\* Each submode of each processed request scheduled the trips that its own
\* sidewalk or lanes and the goal allow, whatever the other submodes did.
SubmodesIndependent ==
    \A r \in ProcessedBorders : \A mode \in Submodes :
       LET req == scenario.border_spawn_over_time[r]
       IN SubmodeTrips(mode, r) =
             IF \/ Lacks(mode, req.start_from_border)
                \/ mode = "cars" /\ TooShort(req.start_from_border)
                \/ ~GoalResolves(mode, req.goal)
             THEN 0 ELSE Requested(mode, req)

BorderCarTrips(r) ==
    SelectSeq(Scheduled, LAMBDA t : /\ t.by = <<"border", r>>
                                     /\ t.spec.kind = "CarAppearing"
                                     /\ t.spec.vehicle[1].vehicle_type = "Car")

SkippingWarnings(i) ==
    Len(SelectSeq(warnings,
                  LAMBDA w : w = <<"Skipping, too short to spawn cars", i>>))

\* C16: a BorderSpawnOverTime request at a border whose first outgoing
\* driving lane is shorter than MAX_CAR_LENGTH schedules no car trip, whatever
\* num_cars is; at a border whose first outgoing driving lane is not shorter
\* every car whose goal resolves gets a CarAppearing trip at distance zero on
\* that lane; no car trip is ever on a lane shorter than MAX_CAR_LENGTH.
C16_CarsNeedLongLane ==
    /\ \A r \in DOMAIN scenario.border_spawn_over_time :
          LET req == scenario.border_spawn_over_time[r]
              lanes == get_outgoing_lanes(req.start_from_border, "Driving")
          IN /\ \A k \in 1 .. Len(BorderCarTrips(r)) :
                   /\ lanes # <<>>
                   /\ BorderCarTrips(r)[k].spec.pos = << <<lanes[1], 0>> >>
                   /\ LaneLength(lanes[1]) >= MAX_CAR_LENGTH
                   /\ BorderCarTrips(r)[k].spec.vehicle[1].length
                         <= LaneLength(lanes[1])
             /\ TooShort(req.start_from_border) => BorderCarTrips(r) = <<>>
             /\ (BetweenBorders /\ r \in ProcessedBorders) =>
                   Len(BorderCarTrips(r)) =
                      IF lanes # <<>> /\ ~TooShort(req.start_from_border)
                         /\ GoalResolves("cars", req.goal)
                      THEN req.num_cars ELSE 0
    /\ BetweenBorders =>
          \A i \in Intersections :
             SkippingWarnings(i) =
                Cardinality({r \in ProcessedBorders :
                   /\ scenario.border_spawn_over_time[r].start_from_border = i
                   /\ TooShort(i)})

\* A request for a car at a border whose first outgoing driving lane is too
\* short has ended: no car trip, the warning, and the bike's trip.
C16_Witness ==
    /\ BetweenBorders
    /\ \E r \in ProcessedBorders :
          LET req == scenario.border_spawn_over_time[r]
          IN /\ TooShort(req.start_from_border)
             /\ req.num_cars > 0
             /\ GoalResolves("cars", req.goal)
             /\ BorderCarTrips(r) = <<>>
             /\ SkippingWarnings(req.start_from_border) = 1
             /\ SubmodeTrips("bikes", r) = 1

----------------------------------------------------------------------------
(* Properties of the goal resolver *)

\* The last agent handled had a border for its goal; the border.
BorderGoalAgent ==
    /\ lastAgent.kind \in {"spawn", "border"}
    /\ lastAgent.out.rule \in {"car", "walk"}
    /\ AgentRequest.goal.kind = "Border"

AgentBorder == AgentRequest.goal.i

\* What pick_driving_goal and pick_walking_goal return for the border i, from
\* the stream in its present state.
DrivingGoalAt(i) == pick_driving_goal(BorderGoal(i), rng)
WalkingGoalAt(i) == pick_walking_goal(BorderGoal(i), rng)

BorderGoalsResolve ==
    \A i \in Intersections :
       /\ DrivingGoalAt(i).v = <<>> <=> get_incoming_lanes(i, "Driving") = <<>>
       /\ DrivingGoalAt(i).v # <<>> =>
             DrivingGoalAt(i).v =
                <<GoalBorder(i, get_incoming_lanes(i, "Driving")[1])>>
       /\ DrivingGoalAt(i).warn # <<>> <=> DrivingGoalAt(i).v = <<>>
       /\ ~DrivingGoalAt(i).panic /\ DrivingGoalAt(i).s = rng
       /\ WalkingGoalAt(i).v = <<>> <=> ~IntersectionInfo(i).sidewalk
       /\ WalkingGoalAt(i).v # <<>> =>
             /\ WalkingGoalAt(i).v[1].connection = "Border"
             /\ WalkingGoalAt(i).v[1].id = i
       /\ WalkingGoalAt(i).warn # <<>> <=> WalkingGoalAt(i).v = <<>>
       /\ ~WalkingGoalAt(i).panic /\ WalkingGoalAt(i).s = rng

\* C17: for every border intersection i, pick_driving_goal(Border(i)) is
\* unresolved if and only if i has no incoming driving lane and is otherwise
\* the first incoming driving lane of i; pick_walking_goal(Border(i)) is
\* unresolved if and only if i has no sidewalk; an unresolved goal is reported
\* by one warning naming i, draws nothing and is not fatal: the agent gets
\* no trip and instantiate goes on.
C17_BorderGoalResolution ==
    /\ BorderGoalsResolve
    /\ BorderGoalAgent =>
          /\ ~lastAgent.out.panic
          /\ lastAgent.out.rule = "car" =>
                /\ lastAgent.out.specs = <<>>
                      <=> get_incoming_lanes(AgentBorder, "Driving") = <<>>
                /\ \A k \in 1 .. Len(lastAgent.out.specs) :
                      lastAgent.out.specs[k].dgoal =
                         <<GoalBorder(AgentBorder,
                              get_incoming_lanes(AgentBorder, "Driving")[1])>>
                /\ lastAgent.out.warn =
                      IF get_incoming_lanes(AgentBorder, "Driving") = <<>>
                      THEN << <<"Can't spawn a car ending at border",
                                AgentBorder>> >>
                      ELSE <<>>
          /\ lastAgent.out.rule = "walk" =>
                /\ lastAgent.out.specs = <<>>
                      <=> ~IntersectionInfo(AgentBorder).sidewalk
                /\ \A k \in 1 .. Len(lastAgent.out.specs) :
                      /\ lastAgent.out.specs[k].wgoal[1].connection = "Border"
                      /\ lastAgent.out.specs[k].wgoal[1].id = AgentBorder
                /\ lastAgent.out.warn =
                      IF ~IntersectionInfo(AgentBorder).sidewalk
                      THEN << <<"Can't end_at_border", AgentBorder>> >>
                      ELSE <<>>
          /\ lastAgent.out.specs = <<>> =>
                /\ pc # "panic"
                /\ lastAgent.out.draws # <<>> =>
                      lastAgent.out.s =
                         RngNext(lastAgent.out.draws
                                    [Len(lastAgent.out.draws)][3])

\* A car whose goal is a border without an incoming driving lane, but with a
\* biking lane, got the warning and no trip, and instantiate ended normally.
C17_Witness ==
    /\ BorderGoalAgent
    /\ lastAgent.out.rule = "car"
    /\ get_incoming_lanes(AgentBorder, "Driving") = <<>>
    /\ get_incoming_lanes(AgentBorder, "Biking") # <<>>
    /\ lastAgent.out.specs = <<>>
    /\ pc = "done"

----------------------------------------------------------------------------
(* Properties of the failures of the parking allocator *)

\* The roads reached from the roads S by steps to next roads of the set.
RECURSIVE ReachableFrom(_, _)
ReachableFrom(S, roads) ==
    LET more == S \cup {r2 \in roads :
                            \E r \in S :
                               \E k \in 1 .. Len(get_next_roads(r)) :
                                  get_next_roads(r)[k] = r2}
    IN IF more = S THEN S ELSE ReachableFrom(more, roads)

\* The roads of the neighborhood hang together: from the road of each of its
\* buildings every road of the set is reached.
Connected(n) ==
    \A k \in 1 .. Len(Neighborhoods[n].buildings) :
       Neighborhoods[n].roads \subseteq
          ReachableFrom({building_to_road(Neighborhoods[n].buildings[k])},
                        Neighborhoods[n].roads)

\* The spots left, before the last search, on the roads reachable from the
\* road of the building searched for.
SpotsInReach ==
    {r \in ReachableFrom({OwnRoad}, lastSearch.roads)
               \cap DOMAIN lastSearch.before :
        lastSearch.before[r] # <<>>}

Min(a, b) == IF a <= b THEN a ELSE b

NoRoomWarnings == SelectSeq(warnings, LAMBDA w : w[1] = "No room")

\* C18: a search fails if and only if no road reachable from the building's
\* road has a spot left; so a pass over a neighborhood whose roads hang
\* together, with S spots free at its start and R vehicles requested, places
\* min(R, S) vehicles and warns "No room" R - min(R, S) times; when each
\* building requests one vehicle the warnings name exactly the buildings left
\* without a vehicle (3 buildings, 2 spots: 2 placed, 1 warning).
C18_FailsOnlyWhenFull ==
    /\ Searched => (Found.spot = <<>> <=> SpotsInReach = {})
    /\ (PassOver /\ Connected(SeedRequest.neighborhood)) =>
          /\ Placed = Min(pass.requested, pass.free)
          /\ pass.no_room = pass.requested - Placed
          /\ (pass.first_id = 0 /\ ri = 1) =>
                /\ Len(NoRoomWarnings) = pass.no_room
                /\ SeedRequest.cars_per_building = OneEach =>
                      /\ pass.requested = Len(owner_buildings)
                      /\ {NoRoomWarnings[k][2] : k \in 1 .. Len(NoRoomWarnings)}
                            = {owner_buildings[k] : k \in
                                  {i \in 1 .. Len(owner_buildings) :
                                      get_parked_cars_by_owner(
                                         owner_buildings[i]) = <<>>}}

\* Three buildings asked for one vehicle each where two spots were free: two
\* vehicles placed and one warning.
C18_Witness ==
    /\ PassOver
    /\ Connected(SeedRequest.neighborhood)
    /\ SeedRequest.cars_per_building = OneEach
    /\ Len(owner_buildings) = 3
    /\ pass.free = 2
    /\ Placed = 2
    /\ Len(NoRoomWarnings) = 1

----------------------------------------------------------------------------
(* Properties of the degenerate scenario *)

\* No SpawnOverTime request of the scenario has an agent and the scenario has
\* no BorderSpawnOverTime request.
Degenerate ==
    /\ \A r \in DOMAIN scenario.spawn_over_time :
          scenario.spawn_over_time[r].num_agents = 0
    /\ scenario.border_spawn_over_time = <<>>

\* C19: instantiate schedules and realizes no trip, and does not abort, for a
\* scenario (of defined neighborhood names) whose SpawnOverTime requests all
\* have num_agents = 0 and that has no BorderSpawnOverTime request.
C19_DegenerateScenario ==
    (Degenerate /\ ReferencedNames \subseteq DOMAIN Neighborhoods) =>
       /\ trips = <<>>
       /\ spawned = <<>>
       /\ pc # "panic"

----------------------------------------------------------------------------
(* Properties of the simulated time of a Sim (sim.rs), under SimSpec *)

\* A call of an operation of Sim other than step.
OtherOperation ==
    \/ Sim_edit_lane_type
    \/ Sim_edit_remove_turn
    \/ Sim_edit_add_turn
    \/ Sim_seed_parked_cars
    \/ Sim_start_many_parked_cars
    \/ Sim_start_agent
    \/ Sim_seed_pedestrians
    \/ Sim_query
    \/ Sim_toggle_debug
    \/ Sim_start_benchmark
    \/ Sim_measure_speed

\* What a call does to the time: it never decreases, a step call advances it
\* by exactly one tick and every other call leaves it as it is.
TimeAfterCall ==
    /\ sim'.time >= sim.time
    /\ Sim_step => sim'.time = sim.time + 1
    /\ OtherOperation => sim'.time = sim.time
    /\ sim'.time # sim.time => Sim_step

\* C20: simulated time starts at tick zero, never decreases, and over any
\* sequence of Sim operations (edits, seeding, start_agent,
\* start_many_parked_cars, seed_pedestrians, queries, toggle_debug, benchmark
\* calls, step) it changes only inside step, each step call advancing it by
\* exactly one tick.
C20_TimeAdvancesOnlyInStep ==
    sim.time = Tick_zero /\ [][TimeAfterCall]_vars

\* Two steps among the calls of a Sim that was seeded with parked cars and
\* started one of them, which is still driving: the time is two ticks.
C20_Witness ==
    /\ sim_pc = "idle"
    /\ calls = 4
    /\ sim.time = 2
    /\ sim.car_id_counter > 0
    /\ sim.driving_state.cars # {}

----------------------------------------------------------------------------
(* Properties of the operations of a Sim (sim.rs), under SimSpec *)

\* The peds a walking step may leave of peds: each one where it was or one
\* lane further along its path, in the same order.
RECURSIVE WalkedOn(_, _)
WalkedOn(before, after) ==
    IF before = <<>> THEN after = <<>>
    ELSE \/ after # <<>> /\ Head(after) = Head(before)
            /\ WalkedOn(Tail(before), Tail(after))
         \/ after # <<>> /\ Tail(Head(before)) # <<>>
            /\ Head(after) = Tail(Head(before))
            /\ WalkedOn(Tail(before), Tail(after))
         \/ Tail(Head(before)) = <<>> /\ WalkedOn(Tail(before), after)

\* What a step call does: the time goes up by one tick, the driving state is
\* stepped with the new time and keeps no car it did not hold, the walking
\* state moves its pedestrians on, and the parking state, the vehicle-id
\* counter, the random stream and the debugged car stay as they are.
StepEffect ==
    /\ sim'.time = sim.time + 1
    /\ sim'.driving_state.stepped = <<sim'.time>>
    /\ {c.id : c \in sim'.driving_state.cars}
          \subseteq {c.id : c \in sim.driving_state.cars}
    /\ sim'.driving_state.lanes = sim.driving_state.lanes
    /\ sim'.driving_state.turns = sim.driving_state.turns
    /\ WalkedOn(sim.walking_state.peds, sim'.walking_state.peds)
    /\ sim'.parking_state = sim.parking_state
    /\ sim'.car_id_counter = sim.car_id_counter
    /\ sim'.rng = sim.rng
    /\ sim'.debug = sim.debug

\* C21: Sim::step first increments time by one tick, then steps the driving
\* subsystem with the new time, then steps the walking subsystem; it leaves
\* the parking subsystem state, the vehicle-id counter and the random stream
\* unchanged, and outside the seed, start and edit calls the parking state
\* never changes.
C21_StepOrderAndFrame ==
    [][/\ Sim_step => StepEffect
       /\ sim'.parking_state # sim.parking_state =>
             \/ Sim_seed_parked_cars
             \/ Sim_start_agent
             \/ Sim_start_many_parked_cars
             \/ Sim_edit_lane_type]_vars

\* A step taken with a car parked and a car driving.
C21_Witness ==
    /\ sim_pc = "idle"
    /\ sim.time = 1
    /\ sim.driving_state.stepped = <<1>>
    /\ sim.driving_state.cars # {}
    /\ \E l \in DOMAIN sim.parking_state.lanes : sim.parking_state.lanes[l] # <<>>

\* The movement subsystem that holds the lanes of a type, if any.
SubsystemOf(type) ==
    CASE type = "Driving" -> {"driving_state"}
      [] type = "Parking" -> {"parking_state"}
      [] type = "Sidewalk" -> {"walking_state"}
      [] OTHER -> {}

\* The movement subsystems in which s2 differs from s1.
ChangedSubsystems(s1, s2) ==
    {f \in {"driving_state", "parking_state", "walking_state"} : s1[f] # s2[f]}

\* s2 has the time, stream, counter and debugged car of s1.
SameOutsideSubsystems(s1, s2) ==
    /\ s2.time = s1.time
    /\ s2.rng = s1.rng
    /\ s2.car_id_counter = s1.car_id_counter
    /\ s2.debug = s1.debug

\* The Sim after the edit of lane id to type on the present map and Sim.
EditedLane(s, id, type) ==
    edit_lane_type(s, id, lane_type[id], [lane_type EXCEPT ![id] = type])

\* The turn edits change at most the one subsystem of the turn's class, and
\* a second application changes nothing more.
TurnEditsRouted ==
    /\ \A t \in Turns :
          \A once \in {edit_remove_turn(sim, t), edit_add_turn(sim, t)} :
              /\ ChangedSubsystems(sim, once) \subseteq
                    (IF between_sidewalks(t) THEN {"walking_state"}
                     ELSE {"driving_state"})
              /\ SameOutsideSubsystems(sim, once)
    /\ \A t \in Turns :
          /\ edit_remove_turn(edit_remove_turn(sim, t), t)
                = edit_remove_turn(sim, t)
          /\ edit_add_turn(edit_add_turn(sim, t), t) = edit_add_turn(sim, t)
          /\ (IF between_sidewalks(t)
              THEN t \notin edit_remove_turn(sim, t).walking_state.turns
                   /\ t \in edit_add_turn(sim, t).walking_state.turns
              ELSE t \notin edit_remove_turn(sim, t).driving_state.turns
                   /\ t \in edit_add_turn(sim, t).driving_state.turns)

\* A lane edit applied twice leaves what it leaves applied once.
LaneEditsIdempotent ==
    \A id \in Lanes, type \in {"Driving", "Parking", "Sidewalk", "Biking"} :
        LET lt == [lane_type EXCEPT ![id] = type]
            once == edit_lane_type(sim, id, lane_type[id], lt)
        IN /\ edit_lane_type(once, id, lane_type[id], lt) = once
           /\ SameOutsideSubsystems(sim, once)

\* C22 as stated: each editing entry point (edit_lane_type, edit_add_turn,
\* edit_remove_turn) changes one movement subsystem, chosen by the lane's or
\* turn's classification, and leaves the other two unchanged; an edit of an
\* element that was not tracked, or the same edit twice, leaves the state
\* that one application leaves.
C22_EditsRouteToOneSubsystem ==
    sim_pc = "idle" =>
        /\ TurnEditsRouted
        /\ LaneEditsIdempotent
        /\ \A id \in Lanes, type \in {"Driving", "Parking", "Sidewalk", "Biking"} :
              Cardinality(ChangedSubsystems(sim, EditedLane(sim, id, type))) <= 1

\* C22, amended: edit_add_turn and edit_remove_turn change at most the one
\* subsystem of the turn's class; edit_lane_type removes the lane from the
\* subsystem of its old type and adds it to the subsystem of its new type, so
\* that it changes at most these two (none for a biking lane) and leaves the
\* rest unchanged; an edit of an element that was not tracked, or the same
\* edit twice, leaves the state that one application leaves.
C22_EditsRouteByOldAndNewType ==
    sim_pc = "idle" =>
        /\ TurnEditsRouted
        /\ LaneEditsIdempotent
        /\ \A id \in Lanes, type \in {"Driving", "Parking", "Sidewalk", "Biking"} :
              LET once == EditedLane(sim, id, type)
              IN /\ ChangedSubsystems(sim, once) \subseteq
                       SubsystemOf(lane_type[id]) \cup SubsystemOf(type)
                 /\ type = "Driving" => id \in once.driving_state.lanes
                 /\ type = "Parking" => id \in DOMAIN once.parking_state.lanes
                 /\ type = "Sidewalk" => id \in once.walking_state.lanes
                 /\ (lane_type[id] = "Driving" /\ type # "Driving")
                       => id \notin once.driving_state.lanes
                 /\ (lane_type[id] = "Parking" /\ type # "Parking")
                       => id \notin DOMAIN once.parking_state.lanes
                 /\ (lane_type[id] = "Sidewalk" /\ type # "Sidewalk")
                       => id \notin once.walking_state.lanes

\* Lane 4 was retyped from driving to parking and cars were seeded on it,
\* and the turn between the sidewalks was added to the walking state.
C22_Witness ==
    /\ sim_pc = "idle"
    /\ lane_type[4] = "Parking"
    /\ 4 \notin sim.driving_state.lanes
    /\ 4 \in DOMAIN sim.parking_state.lanes
    /\ sim.parking_state.lanes[4] # <<>>
    /\ 2 \in sim.walking_state.turns

\* The records the driving state holds for car c.
DrivingRecords(c) == {d \in sim.driving_state.cars : d.id = c}

\* get_car_state projects the driving state, for the ids handed out and for
\* one that was never handed out.
CarStateProjected ==
    \A c \in 0 .. MaxCars :
        /\ get_car_state(sim, c) \in {"Moving", "Stuck", "Parked"}
        /\ get_car_state(sim, c) = "Moving" <=>
              \E d \in DrivingRecords(c) : d.waiting_for = <<>>
        /\ get_car_state(sim, c) = "Stuck" <=>
              \E d \in DrivingRecords(c) : d.waiting_for # <<>>
        /\ get_car_state(sim, c) = "Parked" <=> DrivingRecords(c) = {}

\* C24: get_car_state is a total, pure projection of the driving subsystem:
\* Moving iff the driving subsystem holds a record of the car with no
\* waiting_for entry, Stuck iff it holds one with a waiting_for entry, Parked
\* iff it holds none; the call changes no Sim state.
C24_CarStateProjection ==
    /\ [](sim_pc = "idle" => CarStateProjected)
    /\ [][Sim_query => (sim' = sim /\ lane_type' = lane_type
                        /\ benchmark' = benchmark /\ sim_pc' = sim_pc)]_vars

\* One car is stuck behind a turn while another one is parked.
C24_Witness ==
    /\ sim_pc = "idle"
    /\ \E c1, c2 \in CarIDs :
          /\ get_car_state(sim, c1) = "Stuck"
          /\ get_car_state(sim, c2) = "Parked"
          /\ \E l \in DOMAIN sim.parking_state.lanes :
                sim.parking_state.lanes[l] = <<c2>>

\* The paths found for the requests, in request order.
FoundPaths(requested) ==
    SelectSeq([i \in 1 .. Len(requested) |->
                  pathfind(lane_type, requested[i][1], requested[i][2])],
              LAMBDA p : p # <<>>)

\* What seed_pedestrians(num) does to the present Sim when the path
\* computations finish in `order`.
SeedsInRequestOrder(num, order) ==
    LET out == seed_pedestrians(sim, lane_type, num, order)
        requested == RequestedPaths(num, sim.rng,
                                    LanesOfType(lane_type, "Sidewalk"))
        found == FoundPaths(requested.v)
    IN (out.returns /\ ~out.panic) =>
          /\ out.sim.rng = requested.s
          /\ out.sim.walking_state.peds =
                sim.walking_state.peds \o [i \in 1 .. Len(found) |-> found[i][1]]
          /\ Len(out.sim.walking_state.peds) - Len(sim.walking_state.peds) =
                Cardinality({i \in 1 .. num :
                                pathfind(lane_type, requested.v[i][1],
                                         requested.v[i][2]) # <<>>})
          /\ Len(found) <= num
          /\ out.sim = [sim EXCEPT !.rng = out.sim.rng,
                                   !.walking_state.peds =
                                       out.sim.walking_state.peds]

\* C25: seed_pedestrians draws every (start, goal) pair from the stream
\* before any path is computed and seeds the pedestrians in request order:
\* the pedestrians seeded, their order and the final stream state are the
\* same for every order in which the parallel path computations finish, and
\* the number seeded is the number of requests whose path was found, at most
\* num.
C25_SeedPedestriansDeterministic ==
    sim_pc = "idle" =>
        \A num \in 0 .. MaxPeds :
            /\ SeedsInRequestOrder(num, [i \in 1 .. num |-> i])
            /\ \A order \in Orders(num) :
                  seed_pedestrians(sim, lane_type, num, order) =
                      seed_pedestrians(sim, lane_type, num,
                                       [i \in 1 .. num |-> i])

\* Two pedestrians were seeded in one call, with different paths, after two
\* draws each.
C25_Witness ==
    /\ sim_pc = "idle"
    /\ calls = 1
    /\ Len(sim.walking_state.peds) = 2
    /\ sim.walking_state.peds[1] # sim.walking_state.peds[2]

----------------------------------------------------------------------------
(* The order in which the parking allocator tries the roads *)

\* The number of hops from the roads S to road r through roads of the set,
\* counted from k; Cardinality(Roads) + 1 when r is not reached.
RECURSIVE Hops(_, _, _, _)
Hops(S, roads, r, k) ==
    LET more == S \cup {r2 \in roads :
                            \E r1 \in S :
                               \E i \in 1 .. Len(get_next_roads(r1)) :
                                  get_next_roads(r1)[i] = r2}
    IN IF r \in S THEN k
       ELSE IF more = S THEN Cardinality(Roads) + 1
       ELSE Hops(more, roads, r, k + 1)

\* The breadth-first hop distance of road r from the road of the building
\* searched for.
HopDistance(r) == Hops({OwnRoad}, lastSearch.roads, r, 0)

\* C26: whenever find_spot_near_building returns a spot, the spot's road is
\* at minimal breadth-first hop distance from the building's road among the
\* roads that hold a free spot and are reachable through roads of the
\* neighborhood's road set.
C26_NearestRoadFirst ==
    (Searched /\ Found.spot # <<>>) =>
       /\ Found.spot[1][1] \in SpotsInReach
       /\ \A r \in SpotsInReach :
             HopDistance(Found.spot[1][1]) <= HopDistance(r)

\* A search returned a spot of a road one hop away while a road two hops away
\* had a spot too.
C26_Witness ==
    /\ Searched /\ Found.spot # <<>>
    /\ HopDistance(Found.spot[1][1]) = 1
    /\ \E r \in SpotsInReach : HopDistance(r) = 2

\* A search returned a spot of a road two hops away.
C26_WitnessTwoHops ==
    /\ Searched /\ Found.spot # <<>>
    /\ HopDistance(Found.spot[1][1]) = 2

----------------------------------------------------------------------------
(* Termination of the parking allocator *)

\* The "Giving up" warnings reported by the step being taken.
GivingUpReported ==
    SelectSeq(SubSeq(warnings', Len(warnings) + 1, Len(warnings')),
              LAMBDA w : w[1] = "Giving up")

\* What one search of SeedCar leaves: it tried no road twice, and either
\* returned a spot without a warning or tried every road it had enqueued,
\* warned once and left the stacks alone.
SearchEnds ==
    LET found == lastSearch'.result[1]
    IN /\ NoRepeats(found.popped)
       /\ Len(found.popped) <= Cardinality(Roads)
       /\ found.spot # <<>> => GivingUpReported = <<>>
       /\ found.spot = <<>> =>
             /\ found.popped = found.enqueued
             /\ GivingUpReported = << <<"Giving up", lastSearch'.b>> >>
             /\ found.stacks = open_spots_per_road
             /\ open_spots_per_road' = open_spots_per_road

\* C27: find_spot_near_building terminates on every road graph, cycles
\* included: it returns a spot or, once the frontier is exhausted, reports
\* exactly one "Giving up" warning and returns None; a failed search leaves
\* every spot stack unchanged.
C27_SearchTerminates == [][SeedCar => SearchEnds]_vars

\* A search went round the cycle of roads 1, 2 and 3, found no spot and
\* gave up.
C27_Witness ==
    /\ Searched
    /\ Found.spot = <<>>
    /\ {1, 2, 3} \subseteq {Found.popped[k] : k \in 1 .. Len(Found.popped)}
    /\ warnings # <<>>
    /\ warnings[Len(warnings)] = <<"No room", lastSearch.b>>
    /\ Len(warnings) >= 2
    /\ warnings[Len(warnings) - 1] = <<"Giving up", lastSearch.b>>

----------------------------------------------------------------------------
(* Conservation of cars between the parking and the driving state *)

\* The cars parked in, and the cars driving in, Sim s.
ParkedCars(s) ==
    UNION {{s.parking_state.lanes[l][k] :
               k \in 1 .. Len(s.parking_state.lanes[l])} :
           l \in DOMAIN s.parking_state.lanes}
DrivingCars(s) == {c.id : c \in s.driving_state.cars}

\* Sim t holds every car of Sim s, each one in one place.
CarsConserved(s, t) ==
    /\ ParkedCars(t) \cup DrivingCars(t) = ParkedCars(s) \cup DrivingCars(s)
    /\ ParkedCars(t) \cap DrivingCars(t) = {}
    /\ \A c \in DrivingCars(t) :
          Cardinality({d \in t.driving_state.cars : d.id = c}) = 1

\* start_agent(id) on a driving or parking lane with its paired lane and a
\* parked car: the car leaves the parking state iff start_car_on_lane took it.
RemovedIffAccepted(id) ==
    LET driving == IF lane_type[id] = "Driving" THEN <<id>>
                   ELSE find_lane(lane_type, id, "Driving")
        parking == IF lane_type[id] = "Parking" THEN <<id>>
                   ELSE find_lane(lane_type, id, "Parking")
        car == get_last_parked_car(sim.parking_state, parking[1])
        accepted == start_car_on_lane(sim.driving_state, sim.time, driving[1],
                                      car[1], sim.rng).v
        after == start_agent(sim, lane_type, id).sim
    IN (/\ lane_type[id] \in {"Driving", "Parking"}
        /\ driving # <<>> /\ parking # <<>> /\ car # <<>>) =>
          /\ car[1] \notin ParkedCars(after) <=> accepted
          /\ car[1] \in DrivingCars(after) <=> accepted
          /\ ParkedCars(after) \ {car[1]} = ParkedCars(sim) \ {car[1]}
          /\ DrivingCars(after) \ {car[1]} = DrivingCars(sim)

\* C30: in start_agent on a driving or parking lane the last parked car of
\* the paired parking lane leaves the parking state if and only if
\* start_car_on_lane accepted it into the driving state; start_agent and
\* start_many_parked_cars calls leave no car parked and driving at once and
\* lose no car.
C30_CarConservation ==
    sim_pc = "idle" =>
       /\ ParkedCars(sim) \cap DrivingCars(sim) = {}
       /\ \A id \in Lanes :
             /\ RemovedIffAccepted(id)
             /\ CarsConserved(sim, start_agent(sim, lane_type, id).sim)
       /\ \A num_cars \in 0 .. MaxCars :
             CarsConserved(sim, start_many_parked_cars(sim, lane_type,
                                                       num_cars).sim)

\* One car drives on lane 1 after a start, and the next car parked on the
\* paired lane 2 is one a further start_agent call does not take.
C30_Witness ==
    /\ sim_pc = "idle"
    /\ \E d \in sim.driving_state.cars : d.lane = 1
    /\ get_last_parked_car(sim.parking_state, 2) # <<>>
    /\ start_agent(sim, lane_type, 1).ret
    /\ start_agent(sim, lane_type, 1).sim.parking_state = sim.parking_state

\* A start_agent call moved the parked car of lane 2 to the driving lane 1.
C30_WitnessAccepted ==
    /\ sim_pc = "idle"
    /\ get_last_parked_car(sim.parking_state, 2) = <<>>
    /\ \E d \in sim.driving_state.cars : d.lane = 1
    /\ sim.car_id_counter = 1

----------------------------------------------------------------------------
(* speed.rs: SpeedControls and TimeWarpScreen.  Simulated time and durations
   are counted in steps of 0.1 s, wall-clock time in units of the budget. *)

\* Time::END_OF_DAY, the end of the time slider.
EndOfDay == 4

\* Duration::minutes(10), the length of a large step.
TenMinutes == 2

\* The longest dt the running controls request on an update event.
MaxDt == 3

\* The wall-clock budget Duration::seconds(0.1) and the longest wall-clock
\* time one step call takes.
WallBudget == 1
MaxStepCost == 2

\* The variables of sim.rs.
sim_vars == <<sim, lane_type, benchmark, sim_pc, calls>>

\* A time_limited_step that goes on after the budget has lapsed.
RECURSIVE time_limited_step_without_budget(_, _)
time_limited_step_without_budget(dt, costs) ==
    IF Len(costs) >= dt THEN {costs}
    ELSE UNION {time_limited_step_without_budget(dt, Append(costs, c)) :
                   c \in 0 .. MaxStepCost}

\* A time_limited_step that looks at the time left after the step.
RECURSIVE time_limited_step_one_more(_, _)
time_limited_step_one_more(dt, costs) ==
    IF Len(costs) > dt \/ SumSeq(costs) > WallBudget THEN {costs}
    ELSE UNION {time_limited_step_one_more(dt, Append(costs, c)) :
                   c \in 0 .. MaxStepCost}

\* Sim::time_limited_step(map, dt, budget): the runs the call may take, a
\* run being the wall-clock times of its step calls, `costs` those of the
\* steps made so far.  Between two steps the call returns when dt of
\* simulated time has elapsed or the wall-clock budget has lapsed.
RECURSIVE time_limited_step(_, _)
time_limited_step(dt, costs) ==
    IF Len(costs) >= dt \/ SumSeq(costs) > WallBudget THEN {costs}
    ELSE UNION {time_limited_step(dt, Append(costs, c)) :
                   c \in 0 .. MaxStepCost}

\* A State of the game's stack.
TimeWarpScreen(target) == [screen |-> "TimeWarpScreen", target |-> <<target>>]
JumpToTime == [screen |-> "jump_to_time", target |-> <<>>]

\* What is recorded of an event: its handler, its inputs, the
\* time_limited_step call made (the dt requested and the run taken) and the
\* number of single steps made.
Event(handler, resume, pause, update, small_step, escape, limited, stepped) ==
    [handler |-> handler, resume |-> resume, pause |-> pause,
     update |-> update, small_step |-> small_step, escape |-> escape,
     limited |-> limited, stepped |-> stepped]

\* A pause() that resumes the controls when they are paused.
SpeedControls_pause_or_resume ==
    /\ speed_state \in {"Paused", "Running"}
    /\ screens = <<>>
    /\ speed_state' = IF speed_state = "Paused" THEN "Running" ELSE "Paused"
    /\ last_event' = Event("pause", FALSE, FALSE, FALSE, FALSE, FALSE, <<>>, 0)
    /\ UNCHANGED <<primary_time, screens>>
    /\ UNCHANGED <<instantiate_vars, sim_vars>>

\* SpeedControls::pause(): called by the sandbox.
SpeedControls_pause ==
    /\ speed_state \in {"Paused", "Running"}
    /\ screens = <<>>
    /\ speed_state' = "Paused"
    /\ last_event' = Event("pause", FALSE, FALSE, FALSE, FALSE, FALSE, <<>>, 0)
    /\ UNCHANGED <<primary_time, screens>>
    /\ UNCHANGED <<instantiate_vars, sim_vars>>

\* SpeedControls::event(ctx, ui): one event of the sandbox, in which the
\* buttons shown may have been clicked and which may be an update event.
SpeedControls_event ==
    /\ speed_state \in {"Paused", "Running"}
    /\ screens = <<>>
    /\ \E resume, pause, update, small_step, large_step, jump \in BOOLEAN :
       \E dt \in 0 .. MaxDt :
          LET resumed == speed_state = "Paused" /\ resume
              limited == speed_state = "Running" /\ ~pause /\ update
          IN \E costs \in IF limited THEN time_limited_step(dt, <<>>)
                          ELSE {<<>>} :
                LET stepped == IF ~resumed /\ small_step THEN 1 ELSE 0
                    time == primary_time + Len(costs) + stepped
                    push == ~resumed /\ (large_step \/ jump)
                IN /\ resume => speed_state = "Paused"
                   /\ pause => speed_state = "Running"
                   /\ ~limited => dt = 0
                   /\ time <= EndOfDay
                   /\ (push /\ large_step) => time + TenMinutes <= EndOfDay
                   /\ speed_state' = IF resumed THEN "Running"
                                     ELSE IF pause THEN "Paused"
                                     ELSE speed_state
                   /\ primary_time' = time
                   /\ screens' = IF ~push THEN screens
                                 ELSE IF large_step
                                 THEN <<TimeWarpScreen(time + TenMinutes)>>
                                 ELSE <<JumpToTime>>
                   /\ last_event' =
                         Event("SpeedControls", resume, pause, update,
                               small_step, FALSE,
                               IF limited
                               THEN <<[dt |-> dt, costs |-> costs]>>
                               ELSE <<>>,
                               stepped)
    /\ UNCHANGED <<instantiate_vars, sim_vars>>

\* jump_to_time(wiz, ctx, ui): the time slider gives a target between the
\* present time and the end of the day, and the TimeWarpScreen replaces the
\* wizard.
jump_to_time ==
    /\ screens # <<>>
    /\ screens[Len(screens)] = JumpToTime
    /\ \E target \in primary_time .. EndOfDay :
          screens' = <<TimeWarpScreen(target)>>
    /\ last_event' = Event("jump_to_time", FALSE, FALSE, FALSE, FALSE, FALSE,
                           <<>>, 0)
    /\ UNCHANGED <<primary_time, speed_state>>
    /\ UNCHANGED <<instantiate_vars, sim_vars>>

\* TimeWarpScreen::event(ctx, ui): one event of the screen, in which Escape
\* may have been pressed and which may be an update event.
TimeWarpScreen_event ==
    /\ screens # <<>>
    /\ screens[Len(screens)].screen = "TimeWarpScreen"
    /\ \E escape, update \in BOOLEAN :
          LET target == screens[Len(screens)].target[1]
              dt == target - primary_time
              limited == ~escape /\ update
          IN \E costs \in IF limited THEN time_limited_step(dt, <<>>)
                          ELSE {<<>>} :
                LET time == primary_time + Len(costs)
                IN /\ primary_time' = time
                   /\ screens' = IF escape \/ time = target
                                 THEN SubSeq(screens, 1, Len(screens) - 1)
                                 ELSE screens
                   /\ last_event' =
                         Event("TimeWarpScreen", FALSE, FALSE, update, FALSE,
                               escape,
                               IF limited
                               THEN <<[dt |-> dt, costs |-> costs]>>
                               ELSE <<>>,
                               0)
    /\ UNCHANGED speed_state
    /\ UNCHANGED <<instantiate_vars, sim_vars>>

\* SpeedControls::new: the controls start paused, over the sandbox.
SpeedInit ==
    /\ scenario = Scenario(<<>>, <<>>, <<>>)
    /\ cap = NoSpots
    /\ rng_seed = <<1>>
    /\ overflow_checks = TRUE
    /\ rng \in SimNewRng(rng_seed)
    /\ Start
    /\ run = 1
    /\ prev = NoRun
    /\ NoSim
    /\ primary_time = 0
    /\ speed_state = "Paused"
    /\ screens = <<>>
    /\ last_event = Event("", FALSE, FALSE, FALSE, FALSE, FALSE, <<>>, 0)

SpeedNext ==
    \/ SpeedControls_event
    \/ SpeedControls_pause
    \/ jump_to_time
    \/ TimeWarpScreen_event

SpeedSpec == SpeedInit /\ [][SpeedNext]_vars

----------------------------------------------------------------------------
(* Properties of time_limited_step *)

\* The wall-clock time a run has taken after its first n steps.
WallClock(costs, n) == SumSeq(SubSeq(costs, 1, n))

\* What a time_limited_step call of the step being taken did: whole steps,
\* no more than dt of them; it came back with dt elapsed, or with the budget
\* lapsed at the end of its last step and not before.
LimitedStepEffect ==
    LET call == last_event'.limited[1]
        steps == Len(call.costs)
    IN /\ primary_time' = primary_time + steps + last_event'.stepped
       /\ steps \in 0 .. call.dt
       /\ \/ steps = call.dt
          \/ WallClock(call.costs, steps) > WallBudget
       /\ steps > 0 => WallClock(call.costs, steps - 1) <= WallBudget
       /\ \A n \in 0 .. (steps - 1) :
             n < call.dt /\ WallClock(call.costs, n) <= WallBudget

\* C23: time_limited_step(map, dt, budget) advances simulated time by whole
\* step calls only and by no more than dt in total; it returns when dt of
\* simulated time has elapsed or at the first step boundary after the budget
\* has lapsed, so it never goes on past the budget by more than one step.
C23_TimeLimitedStep ==
    [][last_event'.limited # <<>> => LimitedStepEffect]_vars

\* A call came back after two of the three steps asked for: the budget
\* lapsed during the second step.
C23_Witness ==
    /\ last_event # <<>>
    /\ last_event.limited # <<>>
    /\ last_event.limited[1].dt = 3
    /\ Len(last_event.limited[1].costs) = 2
    /\ WallClock(last_event.limited[1].costs, 1) <= WallBudget
    /\ WallClock(last_event.limited[1].costs, 2) > WallBudget
    /\ primary_time = 2

----------------------------------------------------------------------------
(* Properties of the TimeWarpScreen *)

\* The TimeWarpScreen is the State on top, with target t.
Warping(t) ==
    /\ screens # <<>>
    /\ screens[Len(screens)] = TimeWarpScreen(t)

\* The TimeWarpScreen with target t has just popped: on Escape, or at t.
Popped(t) ==
    /\ screens = <<>>
    /\ last_event.handler = "TimeWarpScreen"
    /\ last_event.escape \/ primary_time = t

\* An update event of the TimeWarpScreen in which Escape is not pressed.
TimeWarpScreen_update ==
    /\ TimeWarpScreen_event
    /\ last_event'.update
    /\ ~last_event'.escape

\* The sandbox and the TimeWarpScreen, the screen getting update events for
\* as long as it is on top.
SpeedLiveSpec == SpeedSpec /\ WF_vars(TimeWarpScreen_update)

\* One event of the TimeWarpScreen with target t: on Escape it pops with the
\* time as it was; on an update event it asks time_limited_step for the time
\* left to t; it pops exactly when Escape was pressed or the time is t.
WarpEvent(t) ==
    /\ last_event'.handler = "TimeWarpScreen"
    /\ last_event'.escape => (screens' = <<>> /\ primary_time' = primary_time)
    /\ (last_event'.update /\ ~last_event'.escape) =>
          /\ last_event'.limited # <<>>
          /\ last_event'.limited[1].dt = t - primary_time
    /\ ~(last_event'.update /\ ~last_event'.escape) =>
          (last_event'.limited = <<>> /\ primary_time' = primary_time)
    /\ screens' = <<>> <=> (last_event'.escape \/ primary_time' = t)
    /\ screens' # <<>> => Warping(t)'

\* C28: while the TimeWarpScreen is active simulated time never passes the
\* target; on each update event it requests exactly target - time from
\* time_limited_step; it pops exactly when the time equals the target or
\* Escape is pressed, Escape popping in that event without advancing time;
\* and with update events going on it eventually pops, at the target unless
\* Escape was pressed.
C28_TimeWarpScreen ==
    /\ [](\A t \in 0 .. EndOfDay : Warping(t) => primary_time <= t)
    /\ [][\A t \in 0 .. EndOfDay : Warping(t) => WarpEvent(t)]_vars
    /\ \A t \in 0 .. EndOfDay : Warping(t) ~> Popped(t)

\* A large step from time 0 was cut short by the budget after one step and
\* the next update event, asking for the one step left, reached the target
\* and popped the screen.
C28_Witness ==
    /\ Popped(TenMinutes)
    /\ ~last_event.escape
    /\ last_event.limited # <<>>
    /\ last_event.limited[1].dt = 1
    /\ speed_state = "Paused"

----------------------------------------------------------------------------
(* Properties of the SpeedControls *)

\* The steps time_limited_step made in the event being handled.
LimitedSteps ==
    IF last_event'.limited = <<>> THEN 0
    ELSE Len(last_event'.limited[1].costs)

\* The state changes only on the clicks and calls meant to change it.
StateChangesOnClicks ==
    /\ (speed_state = "Paused" /\ speed_state' = "Running") =>
          (last_event'.handler = "SpeedControls" /\ last_event'.resume)
    /\ (speed_state = "Running" /\ speed_state' = "Paused") =>
          \/ last_event'.handler = "SpeedControls" /\ last_event'.pause
          \/ last_event'.handler = "pause"

\* What SpeedControls::event and pause() do to the primary simulation.
ControlsAdvance ==
    /\ last_event'.handler = "pause" => primary_time' = primary_time
    /\ last_event'.handler = "SpeedControls" =>
          /\ primary_time' = primary_time + LimitedSteps + last_event'.stepped
          /\ last_event'.limited # <<>> =>
                /\ speed_state = "Running"
                /\ last_event'.update
                /\ ~last_event'.pause
          /\ last_event'.stepped \in {0, 1}
          /\ last_event'.stepped = 1 => last_event'.small_step
          /\ (last_event'.small_step /\ speed_state' = speed_state) =>
                last_event'.stepped = 1
          /\ speed_state = "Paused" => last_event'.limited = <<>>
          /\ (speed_state = "Paused" /\ ~last_event'.small_step) =>
                primary_time' = primary_time
          /\ (last_event'.resume \/ last_event'.pause) =>
                last_event'.limited = <<>>

\* C29: the controls start Paused; the state goes from Paused to Running
\* only in an event where resume was clicked and from Running to Paused only
\* where pause was clicked or pause() was called; SpeedControls::event
\* advances the primary simulation only by time_limited_step, in the Running
\* state on an update event without a pause click, and by one step of 0.1 s
\* on a small-step click; time_limited_step is not called while Paused nor
\* in the event that handles a resume or pause click.
C29_SpeedControls ==
    /\ speed_state = "Paused"
    /\ [][StateChangesOnClicks /\ ControlsAdvance]_vars

\* The running controls advanced the simulation on update events; then an
\* event with a pause click and a small-step click paused them and made one
\* step.
C29_Witness ==
    /\ speed_state = "Paused"
    /\ last_event.handler = "SpeedControls"
    /\ last_event.pause
    /\ last_event.update
    /\ last_event.stepped = 1
    /\ last_event.limited = <<>>
    /\ primary_time = 3

\* An update event of the running controls called time_limited_step.
C29_WitnessRunning ==
    /\ speed_state = "Running"
    /\ last_event.handler = "SpeedControls"
    /\ last_event.limited # <<>>
    /\ Len(last_event.limited[1].costs) = 2

----------------------------------------------------------------------------
(* What start_agent and start_many_parked_cars report *)

\* Sim t holds an agent Sim s did not: one more pedestrian, or a car that
\* was parked in s and drives in t.
AgentStarted(s, t) ==
    \/ Len(t.walking_state.peds) = Len(s.walking_state.peds) + 1
    \/ \E c \in ParkedCars(s) : c \in DrivingCars(t) \ DrivingCars(s)

\* The count start_many_parked_cars reports is the number of cars that began
\* driving, at most min(num_cars, number of empty driving lanes).
StartedCountExact(num_cars) ==
    LET out == start_many_parked_cars(sim, lane_type, num_cars)
        empty == {l \in sim.driving_state.lanes :
                     ~\E c \in sim.driving_state.cars : c.lane = l}
    IN /\ out.actual =
             Cardinality(DrivingCars(out.sim) \ DrivingCars(sim))
       /\ out.actual <= num_cars
       /\ out.actual <= Cardinality(empty)

\* C31: start_agent returns true only when an agent was actually started (a
\* pedestrian was seeded, or a parked car was transferred into the driving
\* state), so the count reported by start_many_parked_cars is the number of
\* cars that began driving and is at most min(num_cars, number of empty
\* driving lanes).
C31_TrueOnlyWhenStarted ==
    sim_pc = "idle" =>
       /\ \A id \in Lanes :
             start_agent(sim, lane_type, id).ret =>
                AgentStarted(sim, start_agent(sim, lane_type, id).sim)
       /\ \A num_cars \in 0 .. MaxCars : StartedCountExact(num_cars)

\* The half of C31 about start_many_parked_cars alone.
C31_CountOfStartMany ==
    sim_pc = "idle" => \A num_cars \in 0 .. MaxCars : StartedCountExact(num_cars)

----------------------------------------------------------------------------
(* The vehicles generated *)

\* The vehicles of the trips the last agent of a spawning loop was given.
AgentVehicles ==
    {lastAgent.out.specs[k].vehicle[1] :
        k \in {j \in 1 .. Len(lastAgent.out.specs) :
                  lastAgent.out.specs[j].vehicle # <<>>}}

\* Lengths and speed cap of the vehicles generated: bike trips get a length
\* in [MIN_BIKE_LENGTH, MAX_BIKE_LENGTH) and the bike speed cap, car trips
\* and seeded parked cars the car type, a length in [MIN_CAR_LENGTH,
\* MAX_CAR_LENGTH) and no cap.
VehicleShapes ==
    /\ lastAgent.out.rule = "bike" =>
          \A v \in AgentVehicles :
             /\ v.length >= MIN_BIKE_LENGTH /\ v.length < MAX_BIKE_LENGTH
             /\ v.max_speed = <<10>>
    /\ lastAgent.out.rule = "car" =>
          \A v \in AgentVehicles :
             /\ v.vehicle_type = "Car"
             /\ v.length >= MIN_CAR_LENGTH /\ v.length < MAX_CAR_LENGTH
    /\ \A k \in 1 .. Len(parked) :
          /\ parked[k].vehicle.vehicle_type = "Car"
          /\ parked[k].vehicle.length >= MIN_CAR_LENGTH
          /\ parked[k].vehicle.length < MAX_CAR_LENGTH

\* C32: every vehicle generated for a bike trip (UsingBike of SpawnOverTime,
\* the bike CarAppearing of BorderSpawnOverTime) has the bike type, not the
\* car or bus type, a length in [MIN_BIKE_LENGTH, MAX_BIKE_LENGTH) and the
\* bike speed cap; every vehicle generated for a car trip or a seeded parked
\* car has the car type and a length in [MIN_CAR_LENGTH, MAX_CAR_LENGTH).
C32_BikesAreBikes ==
    /\ VehicleShapes
    /\ lastAgent.out.rule = "bike" =>
          \A v \in AgentVehicles : v.vehicle_type = "Bike"

\* A bike trip was scheduled.
C32_BikeTripScheduled ==
    /\ lastAgent.out.rule = "bike"
    /\ AgentVehicles # {}

----------------------------------------------------------------------------
(* The summary of seed_parked_cars *)

\* C33: the end-of-pass summary of seed_parked_cars is computed without
\* unsigned underflow for every distribution and spot supply: the figure
\* owner_buildings.len() - new_cars is not negative when the pass has handled
\* its last building, and every "Seeded" note reports a number of buildings
\* between 0 and the number of buildings.
C33_SummaryWithoutUnderflow ==
    /\ PassOver => Len(owner_buildings) - new_cars >= 0
    /\ \A k \in 1 .. Len(warnings) :
          warnings[k][1] = "Seeded" =>
             warnings[k][2] \in 0 .. Cardinality(Buildings)

\* The half of C33 for passes that place at most one car per building.
C33_NoUnderflowUpToOneCarEach ==
    (PassOver /\ Len(SeedRequest.cars_per_building) <= 2) =>
       Len(owner_buildings) - new_cars >= 0

====
